---- MODULE Spec2Model ----
(***************************************************************************)
(* Priced In Gold: the content script (USDToKAUConverter) that scans page  *)
(* text for USD amounts, converts them to grams of gold (KAU) and rewrites *)
(* the DOM, with its enable toggle, site exclusion and debounced rescans.  *)
(*                                                                         *)
(* Text is a sequence of one-character strings.  Regular expressions are   *)
(* syntax trees run by a backtracking matcher that lists the successful    *)
(* match states in the order a backtracking engine tries them, so the head *)
(* of the list is the match JavaScript reports.                            *)
(***************************************************************************)
EXTENDS Integers, Sequences, FiniteSets, TLC

\* ------------------------------------------------------------------------
\* Characters
\* ------------------------------------------------------------------------
Digit == {"0", "1", "2", "3", "4", "5", "6", "7", "8", "9"}

LowerLetters == <<"a", "b", "c", "d", "e", "f", "g", "h", "i", "j", "k", "l", "m",
                  "n", "o", "p", "q", "r", "s", "t", "u", "v", "w", "x", "y", "z">>

UpperLetters == <<"A", "B", "C", "D", "E", "F", "G", "H", "I", "J", "K", "L", "M",
                  "N", "O", "P", "Q", "R", "S", "T", "U", "V", "W", "X", "Y", "Z">>

Range(s) == {s[i] : i \in DOMAIN s}

\* \s, restricted to the white space the modelled texts contain
Space == {" "}

\* \w
WordChar == Digit \cup Range(LowerLetters) \cup Range(UpperLetters) \cup {"_"}

\* String.prototype.toLowerCase, one character
ToLowerChar(c) ==
    IF \E i \in DOMAIN UpperLetters : c = UpperLetters[i]
    THEN LowerLetters[CHOOSE j \in DOMAIN UpperLetters : c = UpperLetters[j]]
    ELSE c

ToLowerCase(s) == [i \in DOMAIN s |-> ToLowerChar(s[i])]

\* ------------------------------------------------------------------------
\* Regular-expression syntax
\* ------------------------------------------------------------------------
Unbounded == -1

\* a character class; under the i flag (ChrI) the character read is compared
\* in lower case with a class given in lower case
Chr(S) == [t |-> "chr", set |-> S]
ChrI(S) == [t |-> "chri", set |-> S]
NotChr(S) == [t |-> "nchr", set |-> S]
Lit(c) == Chr({c})
LitI(c) == ChrI({c})
Cat(parts) == [t |-> "cat", parts |-> parts]
Alt(parts) == [t |-> "alt", parts |-> parts]
Rep(r, lo, hi) == [t |-> "rep", r |-> r, lo |-> lo, hi |-> hi]
Grp(n, r) == [t |-> "grp", n |-> n, r |-> r]
Ahead(r) == [t |-> "ahead", r |-> r]
NotAhead(r) == [t |-> "nahead", r |-> r]
EndOfInput == [t |-> "eoi"]
WordBoundary == [t |-> "wb"]
WordI(w) == Cat([i \in DOMAIN w |-> LitI(w[i])])
Word(w) == Cat([i \in DOMAIN w |-> Lit(w[i])])

\* ------------------------------------------------------------------------
\* The backtracking matcher
\* ------------------------------------------------------------------------
NoGroup == <<-1, -1>>

\* pos counts the characters consumed so far; g1, g2 are the capture groups
StartState(p) == [pos |-> p, g1 |-> NoGroup, g2 |-> NoGroup]

IsWordAt(text, i) == i >= 1 /\ i <= Len(text) /\ text[i] \in WordChar

\* the match states of a group, with the group's capture recorded
Captured(n, from, inner) ==
    [i \in DOMAIN inner |->
       IF n = 1 THEN [inner[i] EXCEPT !.g1 = <<from, inner[i].pos>>]
                ELSE [inner[i] EXCEPT !.g2 = <<from, inner[i].pos>>]]

RECURSIVE Run(_, _, _), RunAll(_, _, _), RunCat(_, _, _, _), RunAlt(_, _, _, _),
          RunRep(_, _, _, _), RunRepAll(_, _, _, _)

Run(r, text, st) ==
    CASE r.t = "chr" ->
           IF st.pos < Len(text) /\ text[st.pos + 1] \in r.set
           THEN <<[st EXCEPT !.pos = st.pos + 1]>> ELSE <<>>
      [] r.t = "chri" ->
           IF st.pos < Len(text) /\ ToLowerChar(text[st.pos + 1]) \in r.set
           THEN <<[st EXCEPT !.pos = st.pos + 1]>> ELSE <<>>
      [] r.t = "nchr" ->
           IF st.pos < Len(text) /\ text[st.pos + 1] \notin r.set
           THEN <<[st EXCEPT !.pos = st.pos + 1]>> ELSE <<>>
      [] r.t = "cat" -> RunCat(r.parts, 1, text, <<st>>)
      [] r.t = "alt" -> RunAlt(r.parts, 1, text, st)
      [] r.t = "rep" -> RunRep(r, text, st, 0)
      [] r.t = "grp" -> Captured(r.n, st.pos, Run(r.r, text, st))
      [] r.t = "ahead" -> IF Run(r.r, text, st) # <<>> THEN <<st>> ELSE <<>>
      [] r.t = "nahead" -> IF Run(r.r, text, st) = <<>> THEN <<st>> ELSE <<>>
      [] r.t = "eoi" -> IF st.pos = Len(text) THEN <<st>> ELSE <<>>
      [] r.t = "wb" ->
           IF IsWordAt(text, st.pos) # IsWordAt(text, st.pos + 1) THEN <<st>> ELSE <<>>

RunAll(r, text, sts) ==
    IF sts = <<>> THEN <<>>
    ELSE Run(r, text, Head(sts)) \o RunAll(r, text, Tail(sts))

RunCat(parts, k, text, sts) ==
    IF k > Len(parts) \/ sts = <<>> THEN sts
    ELSE RunCat(parts, k + 1, text, RunAll(parts[k], text, sts))

RunAlt(parts, k, text, st) ==
    IF k > Len(parts) THEN <<>>
    ELSE Run(parts[k], text, st) \o RunAlt(parts, k + 1, text, st)

\* greedy quantifier: one more repetition is tried before stopping here
RunRep(r, text, st, n) ==
    (IF r.hi = Unbounded \/ n < r.hi THEN RunRepAll(r, text, Run(r.r, text, st), n + 1)
     ELSE <<>>)
      \o (IF n >= r.lo THEN <<st>> ELSE <<>>)

RunRepAll(r, text, sts, n) ==
    IF sts = <<>> THEN <<>>
    ELSE RunRep(r, text, Head(sts), n) \o RunRepAll(r, text, Tail(sts), n)

\* RegExp exec at one start position: the first success, if any
ExecAt(re, text, p) == Run(re, text, StartState(p))

\* String.prototype.matchAll with a g-flagged pattern: leftmost match from
\* lastIndex, then on from the end of that match
RECURSIVE MatchAll(_, _, _)
MatchAll(re, text, from) ==
    IF from > Len(text) THEN <<>>
    ELSE LET Found(found) ==
                 IF found = <<>> THEN MatchAll(re, text, from + 1)
                 ELSE <<[index |-> from, end |-> found[1].pos,
                         g1 |-> found[1].g1, g2 |-> found[1].g2]>>
                        \o MatchAll(re, text,
                                    IF found[1].pos > from THEN found[1].pos ELSE from + 1)
         IN  Found(ExecAt(re, text, from))

\* ------------------------------------------------------------------------
\* The pattern catalog (pricePatterns)
\* ------------------------------------------------------------------------
D == Chr(Digit)
Spaces == Rep(Chr(Space), 0, Unbounded)                          \* \s*

NumDecimal == Cat(<<Rep(D, 1, Unbounded),                        \* \d+(?:\.\d+)?
                    Rep(Cat(<<Lit("."), Rep(D, 1, Unbounded)>>), 0, 1)>>)
NumGrouped == Cat(<<Rep(D, 1, 3),                                \* \d{1,3}(?:,\d{3})*(?:\.\d{2})?
                    Rep(Cat(<<Lit(","), Rep(D, 3, 3)>>), 0, Unbounded),
                    Rep(Cat(<<Lit("."), Rep(D, 2, 2)>>), 0, 1)>>)
NumCents == Cat(<<Rep(D, 1, Unbounded), Lit("."), Rep(D, 2, 2)>>)  \* \d+\.\d{2}
NumInteger == Rep(D, 1, Unbounded)                               \* \d+

ScaleWord == Alt(<<WordI(<<"m", "i", "l", "l", "i", "o", "n">>),
                   WordI(<<"b", "i", "l", "l", "i", "o", "n">>),
                   WordI(<<"t", "r", "i", "l", "l", "i", "o", "n">>),
                   WordI(<<"t", "h", "o", "u", "s", "a", "n", "d">>),
                   WordI(<<"h", "u", "n", "d", "r", "e", "d">>)>>)
ScaleLetter == ChrI({"k", "m", "b", "t"})                         \* [kmbt], i flag

DollarSign == Lit("$")                                           \* \$
UsdCode == WordI(<<"u", "s", "d">>)                              \* USD, i flag
DollarsWord == Cat(<<WordI(<<"d", "o", "l", "l", "a", "r">>),    \* dollars?
                     Rep(LitI("s"), 0, 1)>>)
NotMidDigit == Ahead(Alt(<<Chr(Space), EndOfInput, NotChr(Digit)>>))  \* (?=\s|$|[^\d])

PrefixScaled(prefix, scale) ==
    Cat(<<prefix, Spaces, Grp(1, NumDecimal), Spaces, Grp(2, scale), WordBoundary>>)
SuffixScaled(scale) ==
    Cat(<<Grp(1, NumDecimal), Spaces, Grp(2, scale), Spaces, DollarsWord>>)
\* a prefixed plain amount without the lookahead behind the number
PrefixPlainUnguarded(prefix, num) == Cat(<<prefix, Spaces, Grp(1, num)>>)

PrefixPlain(prefix, num) == Cat(<<prefix, Spaces, Grp(1, num), NotMidDigit>>)
SuffixPlain(num) == Cat(<<Grp(1, num), Spaces, DollarsWord, NotMidDigit>>)

pricePatterns ==
    << PrefixScaled(DollarSign, ScaleWord),
       PrefixScaled(UsdCode, ScaleWord),
       SuffixScaled(ScaleWord),
       PrefixScaled(DollarSign, ScaleLetter),
       PrefixScaled(UsdCode, ScaleLetter),
       SuffixScaled(ScaleLetter),
       PrefixPlain(DollarSign, NumGrouped),
       PrefixPlain(DollarSign, NumCents),
       PrefixPlain(DollarSign, NumInteger),
       PrefixPlain(UsdCode, NumGrouped),
       PrefixPlain(UsdCode, NumCents),
       PrefixPlain(UsdCode, NumInteger),
       SuffixPlain(NumGrouped),
       SuffixPlain(NumCents),
       SuffixPlain(NumInteger) >>

Slice(text, a, b) == SubSeq(text, a + 1, b)      \* String.prototype.substring(a, b)

\* ------------------------------------------------------------------------
\* Decimal numbers: ds are the decimal digits, the last sc of them after the
\* point.  Amounts reach 10^15, beyond the checker's integers, so numbers
\* are kept as digit strings and divided by long division.
\* ------------------------------------------------------------------------
DigitChars == <<"0", "1", "2", "3", "4", "5", "6", "7", "8", "9">>
DigitVal(c) == (CHOOSE i \in DOMAIN DigitChars : DigitChars[i] = c) - 1
DigitChar(n) == DigitChars[n + 1]

Zeros(n) == [i \in 1..n |-> 0]
AllZero(ds) == \A i \in DOMAIN ds : ds[i] = 0

RECURSIVE StripZeros(_)
StripZeros(ds) ==
    IF Len(ds) > 1 /\ Head(ds) = 0 THEN StripZeros(Tail(ds)) ELSE ds

Dec(ds, sc) == [ds |-> ds, sc |-> sc]
ZeroDec == Dec(<<0>>, 0)
IsZero(x) == AllZero(x.ds)

\* the integer part and the fraction digits of a decimal
IntPart(x) ==
    IF Len(x.ds) > x.sc THEN StripZeros(SubSeq(x.ds, 1, Len(x.ds) - x.sc)) ELSE <<0>>
FracPart(x) ==
    IF Len(x.ds) >= x.sc THEN SubSeq(x.ds, Len(x.ds) - x.sc + 1, Len(x.ds))
    ELSE Zeros(x.sc - Len(x.ds)) \o x.ds

\* x * 10^k
TimesTenTo(x, k) ==
    IF k <= x.sc THEN Dec(x.ds, x.sc - k) ELSE Dec(x.ds \o Zeros(k - x.sc), 0)

\* x < 0.01
BelowCent(x) == AllZero(IntPart(x)) /\ AllZero(SubSeq(FracPart(x) \o <<0, 0>>, 1, 2))

\* the upper limit 1000000000000000 is 10^CeilingExp
CeilingExp == 15

\* x > 10^15
AboveCeiling(x) ==
    LET Above(ip) ==
          \/ Len(ip) > CeilingExp + 1
          \/ /\ Len(ip) = CeilingExp + 1
             /\ ~ (ip[1] = 1 /\ AllZero(Tail(ip)) /\ AllZero(FracPart(x)))
    IN  Above(IntPart(x))

\* ds + 1
RECURSIVE Increment(_)
Increment(ds) ==
    IF ds = <<>> THEN <<1>>
    ELSE IF ds[Len(ds)] < 9 THEN [ds EXCEPT ![Len(ds)] = ds[Len(ds)] + 1]
    ELSE Increment(SubSeq(ds, 1, Len(ds) - 1)) \o <<0>>

\* schoolbook division of a digit string by a positive integer
RECURSIVE LongDiv(_, _, _, _, _)
LongDiv(ds, den, i, rem, q) ==
    IF i > Len(ds) THEN [q |-> q, r |-> rem]
    ELSE LET cur == rem * 10 + ds[i]
         IN  LongDiv(ds, den, i + 1, cur % den, Append(q, cur \div den))

\* x * 10^f / den: q is its floor, up tells whether its fraction is at least
\* one half.  The division runs on the digits of x; the last j digits of
\* its quotient fall behind the point when x has more than f fraction digits.
Divide(x, den, f) ==
    LET Shape(d, j) ==
          [q |-> StripZeros(SubSeq(Zeros(j) \o d.q, 1, Len(d.q))),
           up |-> IF j = 0 THEN 2 * d.r >= den ELSE (Zeros(j) \o d.q)[Len(d.q) + 1] >= 5]
    IN  Shape(LongDiv(x.ds \o Zeros(IF f > x.sc THEN f - x.sc ELSE 0), den, 1, 0, <<>>),
              IF x.sc > f THEN x.sc - f ELSE 0)

\* floor(x * 10^f / den) and the same rounded half up, as digit strings
ScaledFloor(x, den, f) == Divide(x, den, f).q

ScaledRound(x, den, f) ==
    LET Round(d) == StripZeros(IF d.up THEN Increment(d.q) ELSE d.q)
    IN  Round(Divide(x, den, f))

Chars(ds) == [i \in DOMAIN ds |-> DigitChar(ds[i])]

\* Number.prototype.toFixed(f) of n / 10^f
Fixed(n, f) ==
    LET padded == IF Len(n) > f THEN n ELSE Zeros(f + 1 - Len(n)) \o n
        whole == SubSeq(padded, 1, Len(padded) - f)
        frac == SubSeq(padded, Len(padded) - f + 1, Len(padded))
    IN  Chars(whole) \o (IF f > 0 THEN <<".">> \o Chars(frac) ELSE <<>>)

\* en-US grouping of an integer digit string
RECURSIVE Grouped(_)
Grouped(ds) ==
    IF Len(ds) <= 3 THEN Chars(ds)
    ELSE Grouped(SubSeq(ds, 1, Len(ds) - 3)) \o <<",">>
           \o Chars(SubSeq(ds, Len(ds) - 2, Len(ds)))

RECURSIVE DropTrailingZeros(_)
DropTrailingZeros(ds) ==
    IF ds # <<>> /\ ds[Len(ds)] = 0 THEN DropTrailingZeros(SubSeq(ds, 1, Len(ds) - 1))
    ELSE ds

\* toLocaleString("en-US", {maximumFractionDigits: 2}) of n / 100
Localized(n) ==
    LET padded == IF Len(n) > 2 THEN n ELSE Zeros(3 - Len(n)) \o n
        whole == SubSeq(padded, 1, Len(padded) - 2)
        frac == DropTrailingZeros(SubSeq(padded, Len(padded) - 1, Len(padded)))
    IN  Grouped(whole) \o (IF frac # <<>> THEN <<".">> \o Chars(frac) ELSE <<>>)


\* ------------------------------------------------------------------------
\* Amount parsing, conversion and formatting
\* ------------------------------------------------------------------------
RemoveCommas(str) == SelectSeq(str, LAMBDA c : c # ",")

RECURSIVE DigitRun(_, _)
DigitRun(str, i) ==
    IF i <= Len(str) /\ str[i] \in Digit THEN <<DigitVal(str[i])>> \o DigitRun(str, i + 1)
    ELSE <<>>

\* parseFloat of a string of digits with an optional fraction; NaN otherwise
NaN == Dec(<<>>, 0)
ParseFloat(str) ==
    LET Number(whole, frac) ==
          IF whole = <<>> THEN NaN ELSE Dec(StripZeros(whole) \o frac, Len(frac))
        Fraction(whole) ==
          IF Len(str) > Len(whole) /\ str[Len(whole) + 1] = "."
          THEN DigitRun(str, Len(whole) + 2) ELSE <<>>
        Parsed(whole) == Number(whole, Fraction(whole))
    IN  Parsed(DigitRun(str, 1))

\* the switch over the scale word: the multiplier is 10^exponent
NoMultiplier == -1

\* a switch that knows the scale words and none of the letters
MultiplierExpWordsOnly(unit) ==
    CASE unit = <<"h", "u", "n", "d", "r", "e", "d">> -> 2
      [] unit = <<"t", "h", "o", "u", "s", "a", "n", "d">> -> 3
      [] unit = <<"m", "i", "l", "l", "i", "o", "n">> -> 6
      [] unit = <<"b", "i", "l", "l", "i", "o", "n">> -> 9
      [] unit = <<"t", "r", "i", "l", "l", "i", "o", "n">> -> 12
      [] OTHER -> NoMultiplier

MultiplierExp(unit) ==
    CASE unit = <<"h", "u", "n", "d", "r", "e", "d">> -> 2
      [] unit = <<"t", "h", "o", "u", "s", "a", "n", "d">> -> 3
      [] unit = <<"m", "i", "l", "l", "i", "o", "n">> -> 6
      [] unit = <<"b", "i", "l", "l", "i", "o", "n">> -> 9
      [] unit = <<"t", "r", "i", "l", "l", "i", "o", "n">> -> 12
      [] unit = <<"k">> -> 3
      [] unit = <<"m">> -> 6
      [] unit = <<"b">> -> 9
      [] unit = <<"t">> -> 12
      [] OTHER -> NoMultiplier

\* a parseUSDAmount without the upper limit
parseUSDAmountUnlimited(amountStr, multiplier) ==
    LET Validated(amount) ==
          IF amount = NaN \/ BelowCent(amount) THEN ZeroDec
          ELSE IF multiplier # NoMultiplier THEN TimesTenTo(amount, multiplier)
          ELSE amount
    IN  IF amountStr = <<>> THEN ZeroDec
        ELSE Validated(ParseFloat(RemoveCommas(amountStr)))

parseUSDAmount(amountStr, multiplier) ==
    LET Limited(finalAmount) == IF AboveCeiling(finalAmount) THEN ZeroDec ELSE finalAmount
        Validated(amount) ==
          IF amount = NaN \/ BelowCent(amount) THEN ZeroDec
          ELSE Limited(IF multiplier # NoMultiplier THEN TimesTenTo(amount, multiplier)
                       ELSE amount)
    IN  IF amountStr = <<>> THEN ZeroDec
        ELSE Validated(ParseFloat(RemoveCommas(amountStr)))

\* the rate held by the controller: null, or an object with a price per gram
NullPrice == [null |-> TRUE, price |-> 0]
PriceOf(p) == [null |-> FALSE, price |-> p]

\* usdAmount / kauPrice.price as a fraction num / den
convertToKAU(usdAmount, rate) ==
    IF rate.null \/ rate.price = 0 THEN [num |-> ZeroDec, den |-> 1]
    ELSE [num |-> usdAmount, den |-> rate.price]

\* a label that reads as an amount of dollars
UnitLabelInDollars == <<" ", "d", "o", "l", "l", "a", "r", "s">>

MicroLabel == <<" ", "Î", "¼", "K", "A", "U">>
MilliLabel == <<" ", "m", "K", "A", "U">>
UnitLabel == <<" ", "K", "A", "U">>

\* a formatKAUAmount without the milli band: everything below 1 that is not
\* shown in micro units is shown with four decimals
formatKAUAmountWithoutMilli(kau) ==
    IF AllZero(ScaledFloor(kau.num, kau.den, 4))
    THEN Chars(ScaledRound(kau.num, kau.den, 6)) \o MicroLabel
    ELSE IF AllZero(ScaledFloor(kau.num, kau.den, 0))
    THEN Fixed(ScaledRound(kau.num, kau.den, 4), 4) \o UnitLabel
    ELSE IF Len(ScaledFloor(kau.num, kau.den, 0)) <= 3
    THEN Fixed(ScaledRound(kau.num, kau.den, 2), 2) \o UnitLabel
    ELSE Localized(ScaledRound(kau.num, kau.den, 2)) \o UnitLabel

formatKAUAmount(kau) ==
    IF AllZero(ScaledFloor(kau.num, kau.den, 4))
    THEN Chars(ScaledRound(kau.num, kau.den, 6)) \o MicroLabel
    ELSE IF AllZero(ScaledFloor(kau.num, kau.den, 2))
    THEN Fixed(ScaledRound(kau.num, kau.den, 5), 2) \o MilliLabel
    ELSE IF AllZero(ScaledFloor(kau.num, kau.den, 0))
    THEN Fixed(ScaledRound(kau.num, kau.den, 4), 4) \o UnitLabel
    ELSE IF Len(ScaledFloor(kau.num, kau.den, 0)) <= 3
    THEN Fixed(ScaledRound(kau.num, kau.den, 2), 2) \o UnitLabel
    ELSE Localized(ScaledRound(kau.num, kau.den, 2)) \o UnitLabel

\* ------------------------------------------------------------------------
\* processTextNode: candidates, overlap resolution, replacements
\* ------------------------------------------------------------------------
Candidate(text, m) ==
    LET multiplier == IF m.g2 # NoGroup
                      THEN MultiplierExp(ToLowerCase(Slice(text, m.g2[1], m.g2[2])))
                      ELSE NoMultiplier
    IN  [start |-> m.index, end |-> m.end,
         originalPrice |-> Slice(text, m.index, m.end),
         usdAmount |-> parseUSDAmount(Slice(text, m.g1[1], m.g1[2]), multiplier)]

\* the loop over the patterns and, for each, over its matches
RECURSIVE CollectMatches(_, _)
CollectMatches(text, patterns) ==
    IF patterns = <<>> THEN <<>>
    ELSE LET Pushed(matches) ==
                 SelectSeq([i \in DOMAIN matches |-> Candidate(text, matches[i])],
                           LAMBDA c : ~ IsZero(c.usdAmount))
         IN  Pushed(MatchAll(Head(patterns), text, 0))
               \o CollectMatches(text, Tail(patterns))

\* a comparator whose tie-break prefers the shorter match
CompareMatchesShorterFirst(a, b) ==
    IF a.start # b.start THEN a.start - b.start ELSE a.end - b.end

\* the comparator of allMatches.sort: negative when a goes before b
CompareMatches(a, b) == IF a.start # b.start THEN a.start - b.start ELSE b.end - a.end

\* Array.prototype.sort is stable: an element goes after everything that does
\* not compare greater than it
RECURSIVE InsertSorted(_, _)
InsertSorted(sorted, c) ==
    IF sorted = <<>> THEN <<c>>
    ELSE IF CompareMatches(Head(sorted), c) <= 0
    THEN <<Head(sorted)>> \o InsertSorted(Tail(sorted), c)
    ELSE <<c>> \o sorted

RECURSIVE SortMatches(_)
SortMatches(cs) ==
    IF cs = <<>> THEN <<>>
    ELSE InsertSorted(SortMatches(SubSeq(cs, 1, Len(cs) - 1)), cs[Len(cs)])

\* an overlap test that never finds an overlap
HasOverlapNever(ranges, c) == FALSE

HasOverlap(ranges, c) ==
    \E i \in DOMAIN ranges : c.start < ranges[i].end /\ c.end > ranges[i].start

RECURSIVE AcceptMatches(_, _, _)
AcceptMatches(sorted, accepted, rate) ==
    IF sorted = <<>> THEN accepted
    ELSE LET c == Head(sorted)
         IN  IF HasOverlap(accepted, c) THEN AcceptMatches(Tail(sorted), accepted, rate)
             ELSE AcceptMatches(Tail(sorted),
                    Append(accepted,
                           [originalPrice |-> c.originalPrice,
                            kauText |-> formatKAUAmount(convertToKAU(c.usdAmount, rate)),
                            start |-> c.start, end |-> c.end]),
                    rate)

\* allMatches after the sort
SortedMatches(text) == SortMatches(CollectMatches(text, pricePatterns))


\* ------------------------------------------------------------------------
\* Bounds and the inputs drawn from them
\* ------------------------------------------------------------------------
MaxBlocks == 1        \* elements under body
MaxTimers == 2        \* timer handles that can be pending at once
MaxBurst == 2         \* observer callbacks counted between two debounced scans
MaxFragments == 2     \* fragments a scanned text is put together from

\* the per-gram price the model's rates carry (the fallback price)
FallbackPrice == 130

Dollar == <<" ", "d", "o", "l", "l", "a", "r">>
Million == <<" ", "m", "i", "l", "l", "i", "o", "n">>

\* texts a page block can hold
PageTexts ==
    { <<"n", "o", "w", " ", "$", "5">>,
      <<"$", "3", "0", "0">> \o Million,
      <<"1">> \o Dollar \o <<"5">> \o Dollar \o <<"s">>,
      <<"$", "1", ",", "2", "3", "4", ".", "5", "0", " ", "o", "r", " ", "U", "S", "D", " ", "9">> }

\* fragments of the texts given to a single scan
Fragments ==
    { <<"$", "1">>, <<"$", "3", "0", "0">>, <<"1">>, <<"5">>, <<",", "2", "3", "4">>,
      <<".", "5", "0">>, <<" ">>, <<"k">>, <<"M">>, Million, Dollar, Dollar \o <<"s">>,
      <<"U", "S", "D", " ">>, <<"x">> }

\* texts of single scans that are not put together from fragments
ExampleTexts ==
    { <<"$", "1", "2", "3", "4", "5">>,
      <<"$", "1", ",", "2", "3", "4", "5">>,
      <<"1", "2", "3", " ", "d", "o", "l", "l", "a", "r", "s", "5">>,
      <<"$", "5", "0", "0", "0", " ", "t", "r", "i", "l", "l", "i", "o", "n">>,
      <<"$", "1", "0", "0", "0", " ", "t", "r", "i", "l", "l", "i", "o", "n">>,
      <<"$", "0", ".", "0", "0", "1", " ", "m", "i", "l", "l", "i", "o", "n">>,
      <<"$", "2", " ", "h", "u", "n", "d", "r", "e", "d">>,
      <<"U", "S", "D", " ", "3", " ", "T", "h", "o", "u", "s", "a", "n", "d">>,
      <<"4", " ", "B", "I", "L", "L", "I", "O", "N", " ", "d", "o", "l", "l", "a", "r", "s">>,
      <<"$", "5", " ", "t", "r", "i", "l", "l", "i", "o", "n">>,
      <<"$", "7", "b">>,
      <<"$", "8", "T">>,
      <<"3", "0", "0", " ", "m", "i", "l", "l", "i", "o", "n", " ", "d", "o", "l", "l", "a", "r", "s", "5">>,
      <<"1", "2", "3", "4", "5", ",", "6", "7", "8", " ", "d", "o", "l", "l", "a", "r", "s">>,
      <<"1", "0", "0", "k", " ", "d", "o", "l", "l", "a", "r", "s">>,
      <<"$", "1", ",", "5", "0", "0", " ", "m", "i", "l", "l", "i", "o", "n">>,
      <<"U", "S", "D", " ", "2", ",", "0", "0", "0", "k">> }

\* amounts whose display is checked band by band, and the rates they are
\* converted at
FormatTexts ==
    { <<"$", "1", ".", "0", "0">>,
      <<"$", "5", "0", "0", "0", "0">>,
      <<"$", "0", ".", "0", "5">>,
      <<"$", "0", ".", "1", "0">>,
      <<"$", "0", ".", "1", "9">>,
      <<"$", "0", ".", "2", "0">>,
      <<"$", "1">>,
      <<"$", "1", "2">>,
      <<"$", "1", "3">>,
      <<"$", "1", "9">>,
      <<"$", "2", "0">>,
      <<"$", "1", "2", "9">>,
      <<"$", "1", "3", "0">>,
      <<"$", "9", "9", "9">>,
      <<"$", "1", "9", "9", "9">>,
      <<"$", "2", "0", "0", "0">>,
      <<"$", "1", "2", "9", "9", "9", "9">>,
      <<"$", "1", "3", "0", "0", "0", "0">>,
      <<"$", "1", "9", "9", "9", "9", "9", "9">>,
      <<"$", "2", "0", "0", "0", "0", "0", "0">>,
      <<"$", "1", "2", "3", "4", "5", "6", "7">> }
FormatRates == { PriceOf(1), PriceOf(FallbackPrice), PriceOf(2000) }

RECURSIVE Flatten(_)
Flatten(parts) == IF parts = <<>> THEN <<>> ELSE Head(parts) \o Flatten(Tail(parts))

ScanTexts ==
    PageTexts \cup ExampleTexts \cup
    { Flatten(parts) : parts \in UNION {[1..n -> Fragments] : n \in 1..MaxFragments} }

\* rates a rate-updated notification can carry
Rates == { NullPrice, PriceOf(0), PriceOf(FallbackPrice), PriceOf(2000) }

\* priceReplacements of one text node, in the order they are accepted
ScanText(text, rate) == AcceptMatches(SortedMatches(text), <<>>, rate)

\* The scans of a run are looked up in tables computed once, over every text
\* a walk of the modelled pages can meet: the block texts and their slices
\* (the runs left between replacements and the reverted wrappers), the
\* display texts written into wrappers, and the texts of single scans.
Slices(t) == { Slice(t, a, b) : a \in 0..Len(t), b \in 0..Len(t) }
SliceTexts == UNION { Slices(t) : t \in PageTexts }
DisplayTexts ==
    UNION { { r.kauText : r \in Range(ScanText(q[1], q[2])) } : q \in SliceTexts \X Rates }
TableTexts == SliceTexts \cup DisplayTexts \cup ScanTexts
MatchTable == [t \in TableTexts |-> SortedMatches(t)] @@ <<>>
ScanTable ==
    [q \in TableTexts \X Rates |-> AcceptMatches(MatchTable[q[1]], <<>>, q[2])] @@ <<>>
FormatTable == [q \in FormatTexts \X FormatRates |-> ScanText(q[1], q[2])] @@ <<>>
PriceReplacements(text, rate) ==
    IF <<text, rate>> \in DOMAIN ScanTable THEN ScanTable[<<text, rate>>]
    ELSE FormatTable[<<text, rate>>]

ExampleCom == <<"e", "x", "a", "m", "p", "l", "e", ".", "c", "o", "m">>
Hostnames ==
    { ExampleCom,
      <<"k", "i", "n", "e", "s", "i", "s", ".", "m", "o", "n", "e", "y">>,
      <<"a", "p", "p", ".", "m", "e", "n", "e", ".", "c", "o", "m">> }
\* the URLs a page is loaded at, and the URLs it can go to without a reload
Urls == { [hostname |-> h, pathname |-> <<"/">>] : h \in Hostnames }
SearchPath == <<"/", "s", "e", "a", "r", "c", "h">>
Pathnames == { <<"/">>, SearchPath }
Locations == { [hostname |-> h, pathname |-> q] : h \in Hostnames, q \in Pathnames }

\* user exclusion lists
UserLists ==
    { <<>>, <<ExampleCom>>, <<ExampleCom \o SearchPath>>,
      << <<"*", ".", "m", "e", "n", "e", ".", "c", "o", "m">> >> }

\* ------------------------------------------------------------------------
\* The document: body holds blocks (elements), a block holds text nodes and
\* converted wrappers.  marks are the parts of a node that are members of
\* processedElements; orig, lo and born are history: the text the page put
\* in the block, the offset of a node in it, and whether the node was
\* created by the handler that ran last.
\* ------------------------------------------------------------------------
TextParts == {"self"}
WrapperParts == {"self", "icon", "textSpan", "text"}
WrapperElements == {"self", "icon", "textSpan"}
PartsOf(n) == IF n.kind = "text" THEN TextParts ELSE WrapperParts

\* document.createTextNode
createTextNode(value, lo) ==
    [kind |-> "text", value |-> value, title |-> <<>>, marks |-> {},
     born |-> TRUE, lo |-> lo, rate |-> NullPrice, nested |-> FALSE]

\* the tooltip of a wrapper
WrapperTitle(replacement) == replacement.originalPrice

\* span.usd-to-kau-converted with its icon and its text span
createWrapper(replacement, from) ==
    [kind |-> "wrapper", value |-> replacement.kauText,
     title |-> WrapperTitle(replacement), marks |-> {},
     born |-> TRUE, lo |-> from.lo + replacement.start, rate |-> from.rate,
     nested |-> FALSE]

\* priceReplacements.sort((a, b) => b.start - a.start)
RECURSIVE InsertDescending(_, _)
InsertDescending(sorted, r) ==
    IF sorted = <<>> THEN <<r>>
    ELSE IF Head(sorted).start - r.start >= 0
    THEN <<Head(sorted)>> \o InsertDescending(Tail(sorted), r)
    ELSE <<r>> \o sorted

RECURSIVE SortDescending(_)
SortDescending(rs) ==
    IF rs = <<>> THEN <<>>
    ELSE InsertDescending(SortDescending(SubSeq(rs, 1, Len(rs) - 1)), rs[Len(rs)])

\* the fragment built from the end of the text toward its beginning; from is
\* history: the offset of the text node in its block and the rate in use
RECURSIVE BuildFragment(_, _, _, _, _)
BuildFragment(originalText, rs, currentIndex, fragment, from) ==
    IF rs = <<>>
    THEN IF currentIndex > 0
         THEN <<createTextNode(Slice(originalText, 0, currentIndex), from.lo)>> \o fragment
         ELSE fragment
    ELSE BuildFragment(originalText, Tail(rs), rs[1].start,
                       <<createWrapper(rs[1], from)>>
                         \o (IF currentIndex > rs[1].end
                             THEN <<createTextNode(Slice(originalText, rs[1].end, currentIndex),
                                                   from.lo + rs[1].end)>>
                             ELSE <<>>)
                         \o fragment,
                       from)

\* what a DocumentFragment still holds once replaceChild has moved its
\* children into the document
FragmentAfterInsert(fragment) == <<>>

\* fragment.querySelectorAll("*"): the elements below the fragment
QuerySelectorAll(fragment) ==
    {<<i, part>> \in (DOMAIN fragment) \X WrapperElements : fragment[i].kind = "wrapper"}

\* the nodes that take the place of a text node, after the marking step
ReplaceAndMark(fragment) ==
    LET allElements == QuerySelectorAll(FragmentAfterInsert(fragment))
    IN  [i \in DOMAIN fragment |->
           [fragment[i] EXCEPT !.marks = {part \in WrapperElements : <<i, part>> \in allElements}]]

\* processTextNode on a text node that is not in processedElements: the nodes
\* that stand in its place afterwards, and what the scan of its text gave
processTextNode(node, rate) ==
    LET Rewritten(priceReplacements) ==
          [nodes |-> IF priceReplacements # <<>>
                     THEN ReplaceAndMark(
                            BuildFragment(node.value, SortDescending(priceReplacements),
                                          Len(node.value), <<>>,
                                          [lo |-> node.lo, rate |-> rate]))
                     ELSE <<[node EXCEPT !.marks = @ \cup {"self"}]>>,
           scans |-> <<[text |-> node.value, reps |-> priceReplacements]>>]
    IN  Rewritten(PriceReplacements(node.value, rate))

\* the text node a walk finds at a node of a block: the node itself, or the
\* text node inside the text span of a wrapper
TextNodeOf(node) ==
    IF node.kind = "text" THEN node
    ELSE [createTextNode(node.value, node.lo) EXCEPT !.born = FALSE]

\* an acceptNode that does not look at processedElements
RejectedByParentOnly(tag, node) ==
    IF node.kind = "text" THEN tag \in {"SCRIPT", "STYLE"} ELSE node.nested

\* an acceptNode that does not look at the parent element
RejectedByMarksOnly(tag, node) ==
    IF node.kind = "text" THEN "self" \in node.marks
    ELSE "text" \in node.marks \/ node.nested

\* acceptNode: FILTER_REJECT for a text node that is in processedElements or
\* whose parent is a script or style element.  A wrapper whose inner text
\* was itself rewritten (nested) holds no text node of its own any more.
Rejected(tag, node) ==
    IF node.kind = "text" THEN "self" \in node.marks \/ tag \in {"SCRIPT", "STYLE"}
    ELSE "text" \in node.marks \/ node.nested

Untouched(node) == [nodes |-> <<node>>, scans |-> <<>>]

\* what stands at a node of a block once its text node has been processed
Placed(node, result) ==
    IF node.kind = "text" THEN result
    ELSE [nodes |-> <<IF result.scans[1].reps # <<>>
                      THEN [node EXCEPT !.nested = TRUE]
                      ELSE [node EXCEPT !.marks = @ \cup {"text"}]>>,
          scans |-> result.scans]

\* the tree walker's filter and the call made for each accepted text node
VisitNode(tag, node, rate) ==
    IF Rejected(tag, node) THEN Untouched(node)
    ELSE Placed(node, processTextNode(TextNodeOf(node), rate))

RECURSIVE VisitNodes(_, _, _)
VisitNodes(tag, nodes, rate) ==
    IF nodes = <<>> THEN [nodes |-> <<>>, scans |-> <<>>]
    ELSE LET Joined(first, rest) ==
                 [nodes |-> first.nodes \o rest.nodes, scans |-> first.scans \o rest.scans]
         IN  Joined(VisitNode(tag, Head(nodes), rate), VisitNodes(tag, Tail(nodes), rate))

\* processTextNodes(document.body): the page after the walk, and what was scanned
RECURSIVE processTextNodes(_, _)
processTextNodes(blocks, rate) ==
    IF blocks = <<>> THEN [page |-> <<>>, scans |-> <<>>]
    ELSE LET Joined(first, rest) ==
                 [page |-> <<[blocks[1] EXCEPT !.nodes = first.nodes]>> \o rest.page,
                  scans |-> first.scans \o rest.scans]
         IN  Joined(VisitNodes(blocks[1].tag, blocks[1].nodes, rate),
                    processTextNodes(Tail(blocks), rate))

\* a revert that reads the display text of a wrapper instead of its title
RevertNodeToDisplay(n) ==
    IF n.kind = "wrapper"
    THEN [createTextNode(n.value, n.lo) EXCEPT !.born = FALSE]
    ELSE [n EXCEPT !.marks = {}]

\* removeConversions: every wrapper becomes a text node holding its title,
\* and processedElements is a new, empty set
RevertNode(n) ==
    IF n.kind = "wrapper"
    THEN [createTextNode(n.title, n.lo) EXCEPT !.born = FALSE]
    ELSE [n EXCEPT !.marks = {}]

removeConversions(blocks) ==
    [i \in DOMAIN blocks |->
       [blocks[i] EXCEPT !.nodes = [j \in DOMAIN blocks[i].nodes |-> RevertNode(blocks[i].nodes[j])]]]

\* ------------------------------------------------------------------------
\* Site exclusion
\* ------------------------------------------------------------------------
StartsWith(str, prefix) ==
    Len(str) >= Len(prefix) /\ SubSeq(str, 1, Len(prefix)) = prefix
EndsWith(str, suffix) ==
    Len(str) >= Len(suffix) /\ SubSeq(str, Len(str) - Len(suffix) + 1, Len(str)) = suffix
Includes(str, c) == \E i \in DOMAIN str : str[i] = c
IndexOf(str, c) == CHOOSE i \in DOMAIN str : str[i] = c /\ \A j \in 1..(i - 1) : str[j] # c

hardcodedExcludedUrls ==
    << <<"k", "i", "n", "e", "s", "i", "s", ".", "m", "o", "n", "e", "y">>,
       <<"m", "e", "n", "e", ".", "c", "o", "m">> >>

\* new URL("https://" + pattern) for a pattern that holds a slash and no scheme
PatternUrl(pattern) ==
    LET cut == IndexOf(pattern, "/")
    IN  [hostname |-> SubSeq(pattern, 1, cut - 1),
         pathname |-> SubSeq(pattern, cut, Len(pattern))]

matchesUrlPattern(url, pattern) ==
    IF Includes(pattern, "/")
    THEN LET patternObj == PatternUrl(pattern)
         IN  IF url.hostname # patternObj.hostname THEN FALSE
             ELSE IF EndsWith(patternObj.pathname, <<"*">>)
             THEN StartsWith(url.pathname,
                             SubSeq(patternObj.pathname, 1, Len(patternObj.pathname) - 1))
             ELSE url.pathname = patternObj.pathname
    ELSE IF StartsWith(pattern, <<"*", ".">>)
    THEN LET domain == SubSeq(pattern, 3, Len(pattern))
         IN  url.hostname = domain \/ EndsWith(url.hostname, <<".">> \o domain)
    ELSE IF EndsWith(pattern, <<"*">>)
    THEN StartsWith(url.hostname, SubSeq(pattern, 1, Len(pattern) - 1))
    ELSE IF StartsWith(pattern, <<"l", "o", "c", "a", "l", "h", "o", "s", "t">>)
    THEN StartsWith(url.hostname, <<"l", "o", "c", "a", "l", "h", "o", "s", "t">>)
    ELSE IF StartsWith(pattern, <<"1", "2", "7", ".", "0", ".", "0", ".", "1">>)
    THEN StartsWith(url.hostname, <<"1", "2", "7", ".", "0", ".", "0", ".", "1">>)
    ELSE url.hostname = pattern

\* a hard-coded list that is matched by equality only
IsHardcodedExcludedExact(url) ==
    \E i \in DOMAIN hardcodedExcludedUrls : url.hostname = hardcodedExcludedUrls[i]

\* the loop over the hard-coded list
IsHardcodedExcluded(url) ==
    \E i \in DOMAIN hardcodedExcludedUrls :
        \/ url.hostname = hardcodedExcludedUrls[i]
        \/ EndsWith(url.hostname, <<".">> \o hardcodedExcludedUrls[i])

isUrlExcluded(url, userList) ==
    IF IsHardcodedExcluded(url) THEN TRUE
    ELSE IF userList = <<>> THEN FALSE
    ELSE \E i \in DOMAIN userList : matchesUrlPattern(url, userList[i])

\* isUrlExcluded, computed once for the urls and user lists of the model
ExclusionTable == [q \in Locations \X UserLists |-> isUrlExcluded(q[1], q[2])] @@ <<>>
UrlExcluded(url, userList) ==
    IF <<url, userList>> \in DOMAIN ExclusionTable THEN ExclusionTable[<<url, userList>>]
    ELSE isUrlExcluded(url, userList)


\* ------------------------------------------------------------------------
\* The content script in content.js: plain amounts only, text that holds a
\* scaled amount is skipped, and the tooltip labels the original price
\* ------------------------------------------------------------------------
ScaleTermWords ==
    << <<"m", "i", "l", "l", "i", "o", "n">>, <<"b", "i", "l", "l", "i", "o", "n">>,
       <<"t", "r", "i", "l", "l", "i", "o", "n">>, <<"t", "h", "o", "u", "s", "a", "n", "d">>,
       <<"h", "u", "n", "d", "r", "e", "d">>, <<"k">>, <<"m">>, <<"b">>, <<"t">> >>

\* (?:million|billion|trillion|thousand|hundred|k|m|b|t), without and with the i flag
ScaleTerm == Alt([i \in DOMAIN ScaleTermWords |-> Word(ScaleTermWords[i])])
ScaleTermI == Alt([i \in DOMAIN ScaleTermWords |-> WordI(ScaleTermWords[i])])

\* (?!\s*(?:million|...|t)\b)
NotScaled(term) == NotAhead(Cat(<<Spaces, term, WordBoundary>>))

contentJsPricePatterns ==
    << Cat(<<PrefixPlain(DollarSign, NumGrouped), NotScaled(ScaleTerm)>>),
       Cat(<<PrefixPlain(DollarSign, NumCents), NotScaled(ScaleTerm)>>),
       Cat(<<PrefixPlain(DollarSign, NumInteger), NotScaled(ScaleTerm)>>),
       Cat(<<PrefixPlain(UsdCode, NumGrouped), NotScaled(ScaleTermI)>>),
       Cat(<<PrefixPlain(UsdCode, NumCents), NotScaled(ScaleTermI)>>),
       Cat(<<PrefixPlain(UsdCode, NumInteger), NotScaled(ScaleTermI)>>),
       Cat(<<SuffixPlain(NumGrouped), NotScaled(ScaleTermI)>>),
       Cat(<<SuffixPlain(NumCents), NotScaled(ScaleTermI)>>),
       Cat(<<SuffixPlain(NumInteger), NotScaled(ScaleTermI)>>) >>

exclusionPatterns ==
    << Cat(<<DollarSign, Spaces, NumDecimal, Spaces, ScaleTermI, WordBoundary>>),
       Cat(<<UsdCode, Spaces, NumDecimal, Spaces, ScaleTermI, WordBoundary>>),
       Cat(<<NumDecimal, Spaces, ScaleTermI, Spaces, DollarsWord>>),
       Cat(<<DollarSign, Spaces, NumDecimal, Spaces, ScaleLetter, WordBoundary>>),
       Cat(<<UsdCode, Spaces, NumDecimal, Spaces, ScaleLetter, WordBoundary>>) >>

\* RegExp.prototype.test of a pattern whose lastIndex is 0
RegExpTest(re, text) == \E p \in 0..Len(text) : ExecAt(re, text, p) # <<>>

\* exclusionPatterns.some(...) on the first text node a controller scans
hasExclusionPattern(text) ==
    \E i \in DOMAIN exclusionPatterns : RegExpTest(exclusionPatterns[i], text)

\* priceReplacements of one text node
ScanTextContentJs(text, rate) ==
    IF hasExclusionPattern(text) THEN <<>>
    ELSE AcceptMatches(SortMatches(CollectMatches(text, contentJsPricePatterns)), <<>>, rate)

\* the scans of content.js, computed once for the texts of single scans
ContentJsScanTable ==
    [q \in ScanTexts \X (Rates \ {NullPrice}) |-> ScanTextContentJs(q[1], q[2])] @@ <<>>

\* wrapper.title
WrapperTitleContentJs(replacement) ==
    <<"O", "r", "i", "g", "i", "n", "a", "l", " ", "U", "S", "D", ":", " ">>
      \o replacement.originalPrice

createWrapperContentJs(replacement, from) ==
    [kind |-> "wrapper", value |-> replacement.kauText,
     title |-> WrapperTitleContentJs(replacement), marks |-> {},
     born |-> TRUE, lo |-> from.lo + replacement.start, rate |-> from.rate,
     nested |-> FALSE]

RECURSIVE BuildFragmentContentJs(_, _, _, _, _)
BuildFragmentContentJs(originalText, rs, currentIndex, fragment, from) ==
    IF rs = <<>>
    THEN IF currentIndex > 0
         THEN <<createTextNode(Slice(originalText, 0, currentIndex), from.lo)>> \o fragment
         ELSE fragment
    ELSE BuildFragmentContentJs(originalText, Tail(rs), rs[1].start,
                       <<createWrapperContentJs(rs[1], from)>>
                         \o (IF currentIndex > rs[1].end
                             THEN <<createTextNode(Slice(originalText, rs[1].end, currentIndex),
                                                   from.lo + rs[1].end)>>
                             ELSE <<>>)
                         \o fragment,
                       from)

processTextNodeContentJs(node, rate) ==
    LET Rewritten(priceReplacements) ==
          [nodes |-> IF priceReplacements # <<>>
                     THEN ReplaceAndMark(
                            BuildFragmentContentJs(node.value,
                                                   SortDescending(priceReplacements),
                                                   Len(node.value), <<>>,
                                                   [lo |-> node.lo, rate |-> rate]))
                     ELSE <<[node EXCEPT !.marks = @ \cup {"self"}]>>,
           scans |-> <<[text |-> node.value, reps |-> priceReplacements]>>]
    IN  Rewritten(ContentJsScanTable[<<node.value, rate>>])

VisitNodeContentJs(tag, node, rate) ==
    IF Rejected(tag, node) THEN Untouched(node)
    ELSE Placed(node, processTextNodeContentJs(TextNodeOf(node), rate))

\* processTextNodes(document.body)
processTextNodesContentJs(blocks, rate) ==
    LET Joined(visits) ==
          [nodes |-> Flatten([j \in DOMAIN visits |-> visits[j].nodes]),
           scans |-> Flatten([j \in DOMAIN visits |-> visits[j].scans])]
        Walked(walks) ==
          [page |-> [i \in DOMAIN blocks |-> [blocks[i] EXCEPT !.nodes = walks[i].nodes]],
           scans |-> Flatten([i \in DOMAIN blocks |-> walks[i].scans])]
    IN  Walked([i \in DOMAIN blocks |->
                  Joined([j \in DOMAIN blocks[i].nodes |->
                            VisitNodeContentJs(blocks[i].tag, blocks[i].nodes[j], rate)])])

\* processPage: the gate, then the walk
processPageContentJs(blocks, price, enabled) ==
    IF price.null \/ ~ enabled THEN [page |-> blocks, scans |-> <<>>, walked |-> FALSE]
    ELSE LET Walked(w) == [page |-> w.page, scans |-> w.scans, walked |-> TRUE]
         IN  Walked(processTextNodesContentJs(blocks, price))

\* ------------------------------------------------------------------------
\* State
\* ------------------------------------------------------------------------
VARIABLES
    page,             \* document.body: the blocks
    kauPrice,         \* this.kauPrice
    isEnabled,        \* this.isEnabled
    excludedUrls,     \* this.excludedUrls
    currentUrl,       \* this.currentUrl, read once in the constructor
    location,         \* window.location: the URL the page is at
    pc,               \* how far init() has come
    observing,        \* the mutation observer is set up
    debounceTimeout,  \* this.debounceTimeout: the last timer handle, 0 for null
    timers,           \* handles of the debounce timers that are pending
    mutationQueued,   \* mutation records wait for the observer callback
    lastOp,           \* history: the handler that ran last
    produced,         \* history: the text nodes the last handler scanned
    walked,           \* history: the last handler walked the page
    undone,           \* history: wrappers reverted since the last walk
    toggledOff,       \* history: the last toggle handled was toggle-off
    quietScans,       \* history: walks since page and settings last changed
    burst,            \* history: observer callbacks since the last debounced scan
    cache,            \* background: kauPrice in chrome.storage.local
    cacheError,       \* background: kauPriceError is in chrome.storage.local
    fetchPc,          \* background: how far the update for a refreshPrice request has come
    fetchApi,         \* background: the index into goldApis of that update
    reply,            \* background: the response sent to the last refreshPrice request
    storedEnabled,    \* chrome.storage.local: enabled
    storedExcludedUrls, \* chrome.storage.local: excludedUrls
    popupPc,          \* popup: how far the change handler of the enable toggle has come
    tabUrl,           \* background: tab.url of the tab whose icon is updated
    icon,             \* background: the icon set by updateIconForTab
    fetched,          \* history: what the sources tried by the fetchGoldPrice under way answered
    activeTab,        \* the page's tab is the active tab of the current window
    started,          \* background: start() has been called
    updateTimeout,    \* background: this.updateTimeout, the last timer handle, 0 for undefined
    pendingTimeouts,  \* background: the timers of the scheduler that are pending, as they were set
    updatesInFlight,  \* background: the updateGoldPrice calls of start() and of the timer under way
    lastAttempt       \* history: what the timer that began the last scheduled update had waited for

vars == <<page, kauPrice, isEnabled, excludedUrls, currentUrl, location, pc, observing,
          debounceTimeout, timers, mutationQueued, lastOp, produced, walked,
          undone, toggledOff, quietScans, burst, cache, cacheError, fetchPc, fetchApi,
          reply, storedEnabled, storedExcludedUrls, popupPc, tabUrl, icon,
          fetched, activeTab, started, updateTimeout, pendingTimeouts, updatesInFlight,
          lastAttempt>>

\* the variables of the background service worker
fetcherVars == <<cache, cacheError, fetchPc, fetchApi, reply, fetched>>

\* the variables of the scheduler of the background service worker
schedulerVars == <<started, updateTimeout, pendingTimeouts, updatesInFlight, lastAttempt>>

\* the variables of the popup, of the storage it shares with the other
\* scripts, and of the icon
extensionVars == <<storedEnabled, storedExcludedUrls, popupPc, tabUrl, icon, activeTab>>

\* the variables of the content script and of its page
controllerVars ==
    <<page, kauPrice, isEnabled, excludedUrls, currentUrl, location, pc, observing,
      debounceTimeout, timers, mutationQueued, lastOp, produced, walked, undone,
      toggledOff, quietScans, burst>>

\* no rate: the value of a missing kauPrice and of an undefined priceData
NoData == [defined |-> FALSE, price |-> [num |-> 0, den |-> ZeroDec], source |-> <<>>]
NoReply == [sent |-> FALSE, success |-> FALSE, data |-> NoData, error |-> FALSE]

\* nothing is stored, the popup is closed and no icon has been set
IdleExtension ==
    /\ storedEnabled = TRUE
    /\ storedExcludedUrls = <<>>
    /\ popupPc = "closed"
    /\ tabUrl = [hostname |-> ExampleCom, pathname |-> <<"/">>]
    /\ icon = "none"
    /\ activeTab = TRUE

\* start() has not been called: no timer is set and no update is under way
IdleScheduler ==
    /\ started = FALSE
    /\ updateTimeout = 0
    /\ pendingTimeouts = <<>>
    /\ updatesInFlight = [start |-> 0, scheduled |-> 0]
    /\ lastAttempt = [failed |-> FALSE, waited |-> 0]

\* the service worker has stored nothing and handles no request
IdleFetcher ==
    /\ cache = NoData
    /\ cacheError = FALSE
    /\ fetchPc = "idle"
    /\ fetchApi = 0
    /\ reply = NoReply
    /\ fetched = <<>>

Block(tag, text) ==
    [tag |-> tag, orig |-> text,
     nodes |-> <<[createTextNode(text, 0) EXCEPT !.born = FALSE]>>]

ClearBorn(blocks) ==
    [i \in DOMAIN blocks |->
       [blocks[i] EXCEPT !.nodes = [j \in DOMAIN blocks[i].nodes |->
                                      [blocks[i].nodes[j] EXCEPT !.born = FALSE]]]]

\* document.querySelectorAll(".usd-to-kau-converted"), each with the block it
\* is in, its offset there, its tooltip, its display text and its rate
Wrappers(blocks) ==
    UNION { { [block |-> i, lo |-> blocks[i].nodes[j].lo, title |-> blocks[i].nodes[j].title,
               text |-> blocks[i].nodes[j].value, rate |-> blocks[i].nodes[j].rate] :
              j \in { k \in DOMAIN blocks[i].nodes : blocks[i].nodes[k].kind = "wrapper" } } :
            i \in DOMAIN blocks }

\* a processPage that walks the page without a rate
processPageWithoutRate(blocks, price, enabled, url, userList) ==
    IF ~ enabled THEN [page |-> blocks, scans |-> <<>>, walked |-> FALSE]
    ELSE IF UrlExcluded(url, userList)
    THEN [page |-> blocks, scans |-> <<>>, walked |-> FALSE]
    ELSE LET Walked(w) == [page |-> w.page, scans |-> w.scans, walked |-> TRUE]
         IN  Walked(processTextNodes(blocks, price))

\* a processPage that walks the page while conversion is disabled
processPageWhileDisabled(blocks, price, enabled, url, userList) ==
    IF price.null THEN [page |-> blocks, scans |-> <<>>, walked |-> FALSE]
    ELSE IF UrlExcluded(url, userList)
    THEN [page |-> blocks, scans |-> <<>>, walked |-> FALSE]
    ELSE LET Walked(w) == [page |-> w.page, scans |-> w.scans, walked |-> TRUE]
         IN  Walked(processTextNodes(blocks, price))

\* processPage: the gates, then the walk
processPage(blocks, price, enabled, url, userList) ==
    IF price.null \/ ~ enabled THEN [page |-> blocks, scans |-> <<>>, walked |-> FALSE]
    ELSE IF UrlExcluded(url, userList)
    THEN [page |-> blocks, scans |-> <<>>, walked |-> FALSE]
    ELSE LET Walked(w) == [page |-> w.page, scans |-> w.scans, walked |-> TRUE]
         IN  Walked(processTextNodes(blocks, price))

\* a scan that is taken to have written to the document whatever it found
ReplacedAlways(scans) == TRUE

Replaced(scans) == \E i \in DOMAIN scans : scans[i].reps # <<>>

\* a clearTimeout that cancels nothing
clearTimeoutIgnored(pending, handle) == pending

\* clearTimeout
clearTimeout(pending, handle) == pending \ {handle}

\* setTimeout: the lowest handle no pending timer has
FreeHandle(pending) ==
    CHOOSE h \in 1..MaxTimers : h \notin pending /\ \A g \in 1..(h - 1) : g \in pending

\* history counters stop counting at their bound
Saturate(n, bound) == IF n < bound THEN n + 1 ELSE bound

\* the wrappers still to be found again by the next walk
Reverting(blocks, before) == IF Wrappers(blocks) # {} THEN Wrappers(blocks) ELSE before

\* ------------------------------------------------------------------------
\* Initial state: the constructor has run up to the first await of init()
\* ------------------------------------------------------------------------
Init ==
    /\ page = <<>>
    /\ kauPrice = NullPrice
    /\ isEnabled = TRUE
    /\ excludedUrls = <<>>
    /\ currentUrl \in Urls
    /\ location = currentUrl
    /\ pc = "getKAUPrice"
    /\ observing = FALSE
    /\ debounceTimeout = 0
    /\ timers = {}
    /\ mutationQueued = FALSE
    /\ lastOp = "constructor"
    /\ produced = <<>>
    /\ walked = FALSE
    /\ undone = {}
    /\ toggledOff = FALSE
    /\ quietScans = 0
    /\ burst = 0
    /\ IdleFetcher
    /\ IdleScheduler
    /\ IdleExtension

\* what a handler that reverts nothing leaves of the history
KeepUndone == undone' = IF walked THEN {} ELSE undone

\* ------------------------------------------------------------------------
\* init(): the three awaited steps
\* ------------------------------------------------------------------------
\* getKAUPrice: the background answers with the rate it holds or with none,
\* or the request fails and the error is caught
GetKAUPrice ==
    /\ pc = "getKAUPrice"
    /\ \E response \in {NullPrice, PriceOf(FallbackPrice)} :
          kauPrice' = IF ~ response.null THEN response ELSE kauPrice
    /\ pc' = "loadEnabledState"
    /\ lastOp' = "getKAUPrice"
    /\ page' = ClearBorn(page)
    /\ produced' = <<>>
    /\ walked' = FALSE
    /\ KeepUndone
    /\ UNCHANGED <<isEnabled, excludedUrls, currentUrl, location, observing, debounceTimeout,
                   timers, mutationQueued, toggledOff, quietScans, burst>>
    /\ UNCHANGED <<fetcherVars, extensionVars, schedulerVars>>

\* loadEnabledState when storage answers with stored: enabled unless it is false
LoadEnabledStateAs(stored) ==
    /\ pc = "loadEnabledState"
    /\ isEnabled' = (stored # FALSE)
    /\ pc' = "loadExcludedUrls"
    /\ lastOp' = "loadEnabledState"
    /\ page' = ClearBorn(page)
    /\ produced' = <<>>
    /\ walked' = FALSE
    /\ KeepUndone
    /\ UNCHANGED <<kauPrice, excludedUrls, currentUrl, location, observing, debounceTimeout,
                   timers, mutationQueued, toggledOff, quietScans, burst>>
    /\ UNCHANGED <<fetcherVars, extensionVars, schedulerVars>>

\* loadEnabledState: enabled unless storage holds false
LoadEnabledState == \E stored \in BOOLEAN : LoadEnabledStateAs(stored)

\* loadExcludedUrls, then the first processPage, the observer and the listener
LoadExcludedUrls ==
    /\ pc = "loadExcludedUrls"
    /\ \E stored \in UserLists :
          /\ excludedUrls' = stored
          /\ \E scan \in {processPage(ClearBorn(page), kauPrice, isEnabled, currentUrl, stored)} :
                /\ page' = scan.page
                /\ produced' = scan.scans
                /\ walked' = scan.walked
                /\ quietScans' = IF scan.walked THEN Saturate(quietScans, 2) ELSE quietScans
    /\ observing' = TRUE
    /\ pc' = "ready"
    /\ lastOp' = "init"
    /\ KeepUndone
    /\ UNCHANGED <<kauPrice, isEnabled, currentUrl, location, debounceTimeout, timers,
                   mutationQueued, toggledOff, burst>>
    /\ UNCHANGED <<fetcherVars, extensionVars, schedulerVars>>

\* ------------------------------------------------------------------------
\* The mutation observer and its debounce timer
\* ------------------------------------------------------------------------
\* the observer callback: clearTimeout, then setTimeout
ObserverCallback ==
    /\ mutationQueued
    /\ \E h \in 1..MaxTimers : h \notin clearTimeout(timers, debounceTimeout)
    /\ debounceTimeout' = FreeHandle(clearTimeout(timers, debounceTimeout))
    /\ timers' = clearTimeout(timers, debounceTimeout)
                   \cup {FreeHandle(clearTimeout(timers, debounceTimeout))}
    /\ mutationQueued' = FALSE
    /\ burst' = Saturate(burst, MaxBurst)
    /\ lastOp' = "observer"
    /\ page' = ClearBorn(page)
    /\ produced' = <<>>
    /\ walked' = FALSE
    /\ KeepUndone
    /\ UNCHANGED <<kauPrice, isEnabled, excludedUrls, currentUrl, location, pc, observing,
                   toggledOff, quietScans>>
    /\ UNCHANGED <<fetcherVars, extensionVars, schedulerVars>>

\* a pending timer expires: processPage
DebounceFire ==
    /\ ~ mutationQueued
    /\ \E h \in timers : timers' = timers \ {h}
    /\ \E scan \in {processPage(ClearBorn(page), kauPrice, isEnabled, currentUrl, excludedUrls)} :
          /\ page' = scan.page
          /\ produced' = scan.scans
          /\ walked' = scan.walked
          /\ mutationQueued' = Replaced(scan.scans)
          /\ quietScans' = IF scan.walked THEN Saturate(quietScans, 2) ELSE quietScans
    /\ burst' = 0
    /\ lastOp' = "debounce"
    /\ KeepUndone
    /\ UNCHANGED <<kauPrice, isEnabled, excludedUrls, currentUrl, location, pc, observing,
                   debounceTimeout, toggledOff>>
    /\ UNCHANGED <<fetcherVars, extensionVars, schedulerVars>>

\* ------------------------------------------------------------------------
\* The runtime message listener
\* ------------------------------------------------------------------------
PriceUpdated ==
    /\ pc = "ready"
    /\ ~ mutationQueued
    /\ \E price \in Rates :
          /\ kauPrice' = price
          /\ \E scan \in {processPage(ClearBorn(page), price, isEnabled, currentUrl, excludedUrls)} :
                /\ page' = scan.page
                /\ produced' = scan.scans
                /\ walked' = scan.walked
                /\ mutationQueued' = Replaced(scan.scans)
                /\ quietScans' = IF price # kauPrice THEN (IF scan.walked THEN 1 ELSE 0)
                                 ELSE IF scan.walked THEN Saturate(quietScans, 2)
                                 ELSE quietScans
    /\ lastOp' = "priceUpdated"
    /\ KeepUndone
    /\ UNCHANGED <<isEnabled, excludedUrls, currentUrl, location, pc, observing,
                   debounceTimeout, timers, toggledOff, burst>>
    /\ UNCHANGED <<fetcherVars, extensionVars, schedulerVars>>

\* toggleConversion(true): processPage
ToggleOn ==
    /\ pc = "ready"
    /\ ~ mutationQueued
    /\ isEnabled' = TRUE
    /\ toggledOff' = FALSE
    /\ \E scan \in {processPage(ClearBorn(page), kauPrice, TRUE, currentUrl, excludedUrls)} :
          /\ page' = scan.page
          /\ produced' = scan.scans
          /\ walked' = scan.walked
          /\ mutationQueued' = Replaced(scan.scans)
          /\ quietScans' = IF ~ isEnabled THEN (IF scan.walked THEN 1 ELSE 0)
                           ELSE IF scan.walked THEN Saturate(quietScans, 2)
                           ELSE quietScans
    /\ lastOp' = "toggleOn"
    /\ KeepUndone
    /\ UNCHANGED <<kauPrice, excludedUrls, currentUrl, location, pc, observing,
                   debounceTimeout, timers, burst>>
    /\ UNCHANGED <<fetcherVars, extensionVars, schedulerVars>>

\* the listener's branch for toggleConversion(false): removeConversions
ToggleOffHandler ==
    /\ pc = "ready"
    /\ ~ mutationQueued
    /\ isEnabled' = FALSE
    /\ toggledOff' = TRUE
    /\ page' = removeConversions(ClearBorn(page))
    /\ produced' = <<>>
    /\ walked' = FALSE
    /\ undone' = Reverting(page, IF walked THEN {} ELSE undone)
    /\ mutationQueued' = (Wrappers(page) # {})
    /\ quietScans' = 0
    /\ lastOp' = "toggleOff"
    /\ UNCHANGED <<kauPrice, excludedUrls, currentUrl, location, pc, observing,
                   debounceTimeout, timers, burst>>

\* toggleConversion(false): removeConversions
ToggleOff ==
    /\ ToggleOffHandler
    /\ UNCHANGED <<fetcherVars, extensionVars, schedulerVars>>

\* updateExcludedUrls: removeConversions, then processPage
UpdateExcludedUrlsHandler(list) ==
    /\ pc = "ready"
    /\ ~ mutationQueued
    /\ excludedUrls' = list
    /\ \E scan \in {processPage(removeConversions(ClearBorn(page)), kauPrice, isEnabled,
                                 currentUrl, list)} :
          /\ page' = scan.page
          /\ produced' = scan.scans
          /\ walked' = scan.walked
          /\ mutationQueued' = (Wrappers(page) # {} \/ Replaced(scan.scans))
          /\ quietScans' = IF scan.walked THEN 1 ELSE 0
    /\ undone' = Reverting(page, IF walked THEN {} ELSE undone)
    /\ lastOp' = "updateExcludedUrls"
    /\ UNCHANGED <<kauPrice, isEnabled, currentUrl, location, pc, observing,
                   debounceTimeout, timers, toggledOff, burst>>

UpdateExcludedUrls ==
    /\ \E list \in UserLists : UpdateExcludedUrlsHandler(list)
    /\ UNCHANGED <<fetcherVars, extensionVars, schedulerVars>>

\* ------------------------------------------------------------------------
\* The page's own scripts
\* ------------------------------------------------------------------------
\* a script of the page appends an element holding a text node
PageAddsBlock ==
    /\ Len(page) < MaxBlocks
    /\ \E tag \in {"P", "SCRIPT"}, t \in PageTexts :
          page' = Append(ClearBorn(page), Block(tag, t))
    /\ mutationQueued' = (observing \/ mutationQueued)
    /\ quietScans' = 0
    /\ lastOp' = "pageMutation"
    /\ produced' = <<>>
    /\ walked' = FALSE
    /\ KeepUndone
    /\ UNCHANGED <<kauPrice, isEnabled, excludedUrls, currentUrl, location, pc, observing,
                   debounceTimeout, timers, toggledOff, burst>>
    /\ UNCHANGED <<fetcherVars, extensionVars, schedulerVars>>

\* a script of the page moves to another path without a reload
\* (history.pushState): the content script stays as it is
Navigate ==
    /\ \E q \in Pathnames \ {location.pathname} :
          location' = [location EXCEPT !.pathname = q]
    /\ lastOp' = "navigate"
    /\ page' = ClearBorn(page)
    /\ produced' = <<>>
    /\ walked' = FALSE
    /\ KeepUndone
    /\ UNCHANGED <<kauPrice, isEnabled, excludedUrls, currentUrl, pc, observing,
                   debounceTimeout, timers, mutationQueued, toggledOff, quietScans, burst>>
    /\ UNCHANGED <<fetcherVars, extensionVars, schedulerVars>>

Next ==
    \/ GetKAUPrice
    \/ LoadEnabledState
    \/ LoadExcludedUrls
    \/ ObserverCallback
    \/ DebounceFire
    \/ PriceUpdated
    \/ ToggleOn
    \/ ToggleOff
    \/ UpdateExcludedUrls
    \/ PageAddsBlock
    \/ Navigate

Spec == Init /\ [][Next]_vars

\* ------------------------------------------------------------------------
\* The controller with its scheduling: a queued mutation record is delivered
\* to the observer callback, and a pending timer expires.  One site, one
\* usable rate, and the user lists that exclude the site as a whole or not
\* at all.
\* ------------------------------------------------------------------------
LiveRates == { NullPrice, PriceOf(FallbackPrice) }
LiveLists == { <<>>, <<ExampleCom>> }

InitLive ==
    /\ Init
    /\ currentUrl.hostname = ExampleCom

NextLive ==
    \/ GetKAUPrice
    \/ LoadEnabledState
    \/ LoadExcludedUrls /\ excludedUrls' \in LiveLists
    \/ ObserverCallback
    \/ DebounceFire
    \/ PriceUpdated /\ kauPrice' \in LiveRates
    \/ ToggleOn
    \/ ToggleOff
    \/ UpdateExcludedUrls /\ excludedUrls' \in LiveLists
    \/ PageAddsBlock

SpecLive ==
    InitLive /\ [][NextLive]_vars /\ WF_vars(ObserverCallback) /\ WF_vars(DebounceFire)

\* ------------------------------------------------------------------------
\* Single scans: one text node under body, a usable rate, conversion enabled,
\* no exclusion, and the debounce timer of one observer callback pending
\* ------------------------------------------------------------------------
InitScan ==
    /\ \E t \in ScanTexts : page = <<Block("P", t)>>
    /\ kauPrice \in Rates \ {NullPrice}
    /\ isEnabled = TRUE
    /\ excludedUrls = <<>>
    /\ currentUrl = [hostname |-> ExampleCom, pathname |-> <<"/">>]
    /\ location = currentUrl
    /\ pc = "ready"
    /\ observing = TRUE
    /\ debounceTimeout = 1
    /\ timers = {1}
    /\ mutationQueued = FALSE
    /\ lastOp = "observer"
    /\ produced = <<>>
    /\ walked = FALSE
    /\ undone = {}
    /\ toggledOff = FALSE
    /\ quietScans = 0
    /\ burst = 1
    /\ IdleFetcher
    /\ IdleScheduler
    /\ IdleExtension

SpecScan == InitScan /\ [][DebounceFire]_vars

\* ------------------------------------------------------------------------
\* Single scans of one amount at one rate
\* ------------------------------------------------------------------------
InitFormat ==
    /\ \E t \in FormatTexts : page = <<Block("P", t)>>
    /\ kauPrice \in FormatRates
    /\ isEnabled = TRUE
    /\ excludedUrls = <<>>
    /\ currentUrl = [hostname |-> ExampleCom, pathname |-> <<"/">>]
    /\ location = currentUrl
    /\ pc = "ready"
    /\ observing = TRUE
    /\ debounceTimeout = 1
    /\ timers = {1}
    /\ mutationQueued = FALSE
    /\ lastOp = "observer"
    /\ produced = <<>>
    /\ walked = FALSE
    /\ undone = {}
    /\ toggledOff = FALSE
    /\ quietScans = 0
    /\ burst = 1
    /\ IdleFetcher
    /\ IdleScheduler
    /\ IdleExtension

SpecFormat == InitFormat /\ [][DebounceFire]_vars

\* ------------------------------------------------------------------------
\* Single scans by the content script in content.js: its init() has run on
\* an empty body with a rate, the page has then added one text node, and the
\* debounce timer of the observer callback is pending
\* ------------------------------------------------------------------------
InitContentJs ==
    /\ \E t \in ScanTexts : page = <<Block("P", t)>>
    /\ kauPrice \in Rates \ {NullPrice}
    /\ isEnabled = TRUE
    /\ excludedUrls = <<>>
    /\ currentUrl = [hostname |-> ExampleCom, pathname |-> <<"/">>]
    /\ location = currentUrl
    /\ pc = "ready"
    /\ observing = TRUE
    /\ debounceTimeout = 1
    /\ timers = {1}
    /\ mutationQueued = FALSE
    /\ lastOp = "observer"
    /\ produced = <<>>
    /\ walked = FALSE
    /\ undone = {}
    /\ toggledOff = FALSE
    /\ quietScans = 0
    /\ burst = 1
    /\ IdleFetcher
    /\ IdleScheduler
    /\ IdleExtension

\* the pending timer expires: processPage
DebounceFireContentJs ==
    /\ ~ mutationQueued
    /\ \E h \in timers : timers' = timers \ {h}
    /\ \E scan \in {processPageContentJs(ClearBorn(page), kauPrice, isEnabled)} :
          /\ page' = scan.page
          /\ produced' = scan.scans
          /\ walked' = scan.walked
          /\ mutationQueued' = Replaced(scan.scans)
          /\ quietScans' = IF scan.walked THEN Saturate(quietScans, 2) ELSE quietScans
    /\ burst' = 0
    /\ lastOp' = "debounce"
    /\ KeepUndone
    /\ UNCHANGED <<kauPrice, isEnabled, excludedUrls, currentUrl, location, pc, observing,
                   debounceTimeout, toggledOff>>
    /\ UNCHANGED <<fetcherVars, extensionVars, schedulerVars>>

SpecContentJs == InitContentJs /\ [][DebounceFireContentJs]_vars

\* ------------------------------------------------------------------------
\* The background service worker (background.js): GoldPriceFetcher and the
\* refreshPrice message
\* ------------------------------------------------------------------------
goldApis ==
    << <<"g", "o", "l", "d", "-", "a", "p", "i", ".", "c", "o", "m">>,
       <<"g", "o", "l", "d", "a", "p", "i", ".", "i", "o">>,
       <<"a", "p", "i", ".", "g", "o", "l", "d", "a", "p", "i", ".", "i", "o">> >>

\* what a source answers: a status that is not ok or a failed fetch, a body
\* whose price is not a number, or a price per ounce
ApiAnswers ==
    { [kind |-> "failed", price |-> 0], [kind |-> "NaN", price |-> 0] }
      \cup { [kind |-> "number", price |-> n] : n \in {0, 999, 1000, 2000, 5000, 5001} }

\* tests that leave out the range of a reasonable price
ValidAnswerAnyPositive(answer) ==
    /\ answer.kind = "number"
    /\ ~ (answer.price <= 0)

\* the tests of fetchGoldPrice on the parsed price
ValidAnswer(answer) ==
    /\ answer.kind = "number"
    /\ ~ (answer.price <= 0)
    /\ ~ (answer.price < 1000 \/ answer.price > 5000)

\* this.gramsPerOunce = 31.1034768
gramsPerOunce == Dec(<<3, 1, 1, 0, 3, 4, 7, 6, 8>>, 7)

\* pricePerOunce / this.gramsPerOunce, kept as the quotient it is
PerGram(pricePerOunce) == [num |-> pricePerOunce, den |-> gramsPerOunce]

priceData(pricePerOunce, api) ==
    [defined |-> TRUE, price |-> PerGram(pricePerOunce), source |-> goldApis[api]]

fallbackData ==
    [defined |-> TRUE, price |-> [num |-> FallbackPrice, den |-> Dec(<<1>>, 0)],
     source |-> <<"f", "a", "l", "l", "b", "a", "c", "k">>]

\* sendResponse of the refreshPrice handler
Success(data) == [sent |-> TRUE, success |-> TRUE, data |-> data, error |-> FALSE]
Failure == [sent |-> TRUE, success |-> FALSE, data |-> NoData, error |-> TRUE]

\* the popup asks for a refresh: the handler calls updateGoldPrice, which
\* calls fetchGoldPrice
RefreshPrice ==
    /\ fetchPc = "idle"
    /\ fetchPc' = "fetch"
    /\ fetchApi' = 1
    /\ reply' = NoReply
    /\ fetched' = <<>>
    /\ UNCHANGED <<cache, cacheError>>
    /\ UNCHANGED <<controllerVars, extensionVars, schedulerVars>>

\* one turn of the loop of fetchGoldPrice: the source answers; a good price
\* is stored and returned; an error, a bad price or a failed write go on
\* with the next source, and behind the last source with the fallback
FetchGoldPriceApi ==
    /\ fetchPc = "fetch"
    /\ \E answer \in ApiAnswers, stored \in BOOLEAN :
          /\ fetched' = Append(fetched, [answer |-> answer,
                                        stored |-> ValidAnswer(answer) /\ stored])
          /\ IF ValidAnswer(answer) /\ stored
            THEN /\ cache' = priceData(answer.price, fetchApi)
                 /\ reply' = Success(priceData(answer.price, fetchApi))
                 /\ fetchPc' = "idle"
                 /\ fetchApi' = 0
            ELSE /\ fetchPc' = IF fetchApi < Len(goldApis) THEN "fetch" ELSE "fallback"
                 /\ fetchApi' = IF fetchApi < Len(goldApis) THEN fetchApi + 1 ELSE 0
                 /\ UNCHANGED <<cache, reply>>
    /\ UNCHANGED cacheError
    /\ UNCHANGED <<controllerVars, extensionVars, schedulerVars>>

\* every source has failed: the fallback is stored and returned; when the
\* write fails the exception leaves fetchGoldPrice
StoreFallback ==
    /\ fetchPc = "fallback"
    /\ \E stored \in BOOLEAN :
          IF stored
          THEN /\ cache' = fallbackData
               /\ reply' = Success(fallbackData)
               /\ fetchPc' = "idle"
          ELSE /\ fetchPc' = "catch"
               /\ UNCHANGED <<cache, reply>>
    /\ UNCHANGED <<cacheError, fetchApi, fetched>>
    /\ UNCHANGED <<controllerVars, extensionVars, schedulerVars>>

\* the catch of updateGoldPrice: the error is stored and updateGoldPrice
\* returns nothing; when this write fails too, updateGoldPrice is rejected
StoreError ==
    /\ fetchPc = "catch"
    /\ \E stored \in BOOLEAN :
          IF stored
          THEN /\ cacheError' = TRUE
               /\ reply' = Success(NoData)
          ELSE /\ reply' = Failure
               /\ UNCHANGED cacheError
    /\ fetchPc' = "idle"
    /\ UNCHANGED <<cache, fetchApi, fetched>>
    /\ UNCHANGED <<controllerVars, extensionVars, schedulerVars>>

NextBackground ==
    \/ RefreshPrice
    \/ FetchGoldPriceApi
    \/ StoreFallback
    \/ StoreError

\* the service worker next to a content script that has just been constructed
InitBackground ==
    /\ Init
    /\ currentUrl.hostname = ExampleCom

SpecBackground == InitBackground /\ [][NextBackground]_vars

\* ------------------------------------------------------------------------
\* The icon (background.js): updateIconForTab and its matchesUrlPattern
\* ------------------------------------------------------------------------
matchesUrlPatternBackground(url, pattern) ==
    IF Includes(pattern, "/")
    THEN LET patternObj == PatternUrl(pattern)
         IN  IF url.hostname # patternObj.hostname THEN FALSE
             ELSE IF EndsWith(patternObj.pathname, <<"*">>)
             THEN StartsWith(url.pathname,
                             SubSeq(patternObj.pathname, 1, Len(patternObj.pathname) - 1))
             ELSE url.pathname = patternObj.pathname
    ELSE IF StartsWith(pattern, <<"*", ".">>)
    THEN LET domain == SubSeq(pattern, 3, Len(pattern))
         IN  url.hostname = domain \/ EndsWith(url.hostname, <<".">> \o domain)
    ELSE IF EndsWith(pattern, <<"*">>)
    THEN StartsWith(url.hostname, SubSeq(pattern, 1, Len(pattern) - 1))
    ELSE IF StartsWith(pattern, <<"l", "o", "c", "a", "l", "h", "o", "s", "t">>)
    THEN StartsWith(url.hostname, <<"l", "o", "c", "a", "l", "h", "o", "s", "t">>)
    ELSE IF StartsWith(pattern, <<"1", "2", "7", ".", "0", ".", "0", ".", "1">>)
    THEN StartsWith(url.hostname, <<"1", "2", "7", ".", "0", ".", "0", ".", "1">>)
    ELSE url.hostname = pattern \/ EndsWith(url.hostname, <<".">> \o pattern)

\* the icon updateIconForTab sets for a tab
IconFor(enabled, url, userList) ==
    IF ~ enabled THEN "disabled"
    ELSE IF IsHardcodedExcluded(url) THEN "hardcoded"
    ELSE IF userList = <<>> THEN "normal"
    ELSE IF \E i \in DOMAIN userList : matchesUrlPatternBackground(url, userList[i])
    THEN "user-excluded"
    ELSE "normal"

\* the tabs and the stored exclusion lists the icon is computed for
WwwExampleCom == <<"w", "w", "w", ".">> \o ExampleCom
LocalhostPort == <<"l", "o", "c", "a", "l", "h", "o", "s", "t">>
IconHostnames ==
    Hostnames \cup
    { WwwExampleCom,
      <<"m", "e", "n", "e", ".", "c", "o", "m">>,
      <<"e", "x", "a", "m", "p", "l", "e", ".", "o", "r", "g">>,
      LocalhostPort,
      <<"1", "2", "7", ".", "0", ".", "0", ".", "1">> }
IconPathnames == Pathnames \cup { SearchPath \o <<"/", "a">> }
IconUrls == { [hostname |-> h, pathname |-> q] : h \in IconHostnames, q \in IconPathnames }
IconPatterns ==
    { ExampleCom,
      WwwExampleCom,
      ExampleCom \o SearchPath,
      ExampleCom \o SearchPath \o <<"*">>,
      WwwExampleCom \o <<"/">>,
      <<"*", ".">> \o ExampleCom,
      <<"e", "x", "a", "m", "*">>,
      LocalhostPort \o <<":", "3", "0", "0", "0">>,
      <<"1", "2", "7", ".", "0", ".", "0", ".", "1", ":", "8", "0">>,
      <<"c", "o", "m">> }
IconLists == { <<>> } \cup { <<q>> : q \in IconPatterns }

\* updateIconForTab: the stored flag and list are read and the icon is set
UpdateIconForTab ==
    /\ icon = "none"
    /\ icon' = IconFor(storedEnabled, tabUrl, storedExcludedUrls)
    /\ UNCHANGED <<storedEnabled, storedExcludedUrls, popupPc, tabUrl, activeTab, schedulerVars>>
    /\ UNCHANGED <<controllerVars, fetcherVars>>

\* a content script that has loaded the stored flag and list at the URL of
\* the tab, next to the service worker that is about to update the icon
InitIcon ==
    /\ page = <<>>
    /\ kauPrice = PriceOf(FallbackPrice)
    /\ storedEnabled \in BOOLEAN
    /\ storedExcludedUrls \in IconLists
    /\ tabUrl \in IconUrls
    /\ isEnabled = storedEnabled
    /\ excludedUrls = storedExcludedUrls
    /\ currentUrl = tabUrl
    /\ location = currentUrl
    /\ pc = "ready"
    /\ observing = TRUE
    /\ debounceTimeout = 0
    /\ timers = {}
    /\ mutationQueued = FALSE
    /\ lastOp = "init"
    /\ produced = <<>>
    /\ walked = FALSE
    /\ undone = {}
    /\ toggledOff = FALSE
    /\ quietScans = 0
    /\ burst = 0
    /\ popupPc = "closed"
    /\ icon = "none"
    /\ activeTab = TRUE
    /\ IdleFetcher
    /\ IdleScheduler

SpecIcon == InitIcon /\ [][UpdateIconForTab]_vars

\* ------------------------------------------------------------------------
\* The popup's enable toggle (popup.js) switched off while the content
\* script runs init(): the popup stores enabled = false, has the icon set,
\* and then sends toggleConversion to the tab
\* ------------------------------------------------------------------------
\* loadEnabledState reads what storage holds at that moment
LoadStoredEnabledState == LoadEnabledStateAs(storedEnabled)

\* await chrome.storage.local.set({ enabled })
PopupPersist ==
    /\ popupPc = "change"
    /\ storedEnabled' = FALSE
    /\ popupPc' = "setIcon"
    /\ UNCHANGED <<storedExcludedUrls, tabUrl, icon, activeTab, schedulerVars>>
    /\ UNCHANGED <<controllerVars, fetcherVars>>

\* await chrome.runtime.sendMessage({ action: "setIcon", iconType: "disabled" })
PopupSetIcon ==
    /\ popupPc = "setIcon"
    /\ icon' = "disabled"
    /\ popupPc' = "sendMessage"
    /\ UNCHANGED <<storedEnabled, storedExcludedUrls, tabUrl, activeTab, schedulerVars>>
    /\ UNCHANGED <<controllerVars, fetcherVars>>

\* chrome.tabs.sendMessage(tab.id, { action: "toggleConversion", enabled }):
\* the listener of the content script handles the message
PopupNotifyDelivered ==
    /\ popupPc = "sendMessage"
    /\ ToggleOffHandler
    /\ popupPc' = "done"
    /\ UNCHANGED <<storedEnabled, storedExcludedUrls, tabUrl, icon, activeTab, schedulerVars>>
    /\ UNCHANGED fetcherVars

\* the same while the content script has no listener yet: the send fails
\* with "Could not establish connection" and the error is ignored
PopupNotifyLost ==
    /\ popupPc = "sendMessage"
    /\ pc # "ready"
    /\ popupPc' = "done"
    /\ UNCHANGED <<storedEnabled, storedExcludedUrls, tabUrl, icon, activeTab, schedulerVars>>
    /\ UNCHANGED <<controllerVars, fetcherVars>>

\* the content script has been constructed on a page that holds one element
\* or none yet, conversion is stored as enabled, and the user switches the
\* toggle in the popup off
InitRace ==
    /\ page \in { <<>> } \cup { <<Block(tag, t)>> : tag \in {"P", "SCRIPT"}, t \in PageTexts }
    /\ kauPrice = NullPrice
    /\ isEnabled = TRUE
    /\ excludedUrls = <<>>
    /\ currentUrl \in Urls
    /\ location = currentUrl
    /\ pc = "getKAUPrice"
    /\ observing = FALSE
    /\ debounceTimeout = 0
    /\ timers = {}
    /\ mutationQueued = FALSE
    /\ lastOp = "constructor"
    /\ produced = <<>>
    /\ walked = FALSE
    /\ undone = {}
    /\ toggledOff = FALSE
    /\ quietScans = 0
    /\ burst = 0
    /\ IdleFetcher
    /\ IdleScheduler
    /\ storedEnabled = TRUE
    /\ storedExcludedUrls = <<>>
    /\ popupPc = "change"
    /\ tabUrl = currentUrl
    /\ icon = "normal"
    /\ activeTab = TRUE

NextRace ==
    \/ GetKAUPrice
    \/ LoadStoredEnabledState
    \/ LoadExcludedUrls
    \/ ObserverCallback
    \/ DebounceFire
    \/ PopupPersist
    \/ PopupSetIcon
    \/ PopupNotifyDelivered
    \/ PopupNotifyLost

SpecRace == InitRace /\ [][NextRace]_vars

\* ------------------------------------------------------------------------
\* In-place writes: a script of the page assigns to the data of a text node
\* (a characterData mutation), the node stays the node it was
\* ------------------------------------------------------------------------
\* texts without an amount
PlainTexts == { <<"n", "o", "w", " ">>, <<" ", "o", "r", " ">> }

\* textNode.data = t on the text node that is the only child of its element:
\* the node keeps its place in processedElements
PageWritesText ==
    /\ \E i \in DOMAIN page, t \in PageTexts \cup PlainTexts :
          /\ Len(page[i].nodes) = 1
          /\ page[i].nodes[1].kind = "text"
          /\ page[i].nodes[1].value # t
          /\ page' = [ClearBorn(page) EXCEPT ![i].orig = t, ![i].nodes[1].value = t]
    /\ mutationQueued' = (observing \/ mutationQueued)
    /\ quietScans' = 0
    /\ lastOp' = "pageMutation"
    /\ produced' = <<>>
    /\ walked' = FALSE
    /\ KeepUndone
    /\ UNCHANGED <<kauPrice, isEnabled, excludedUrls, currentUrl, location, pc, observing,
                   debounceTimeout, timers, toggledOff, burst>>
    /\ UNCHANGED <<fetcherVars, extensionVars, schedulerVars>>

\* init() has run on an empty body with a usable rate, conversion enabled and
\* no exclusion, and the page has then added one element holding a text node
InitInPlace ==
    /\ \E tag \in {"P", "SCRIPT", "STYLE"}, t \in PageTexts \cup PlainTexts :
          page = <<Block(tag, t)>>
    /\ kauPrice \in { PriceOf(FallbackPrice), PriceOf(2000) }
    /\ isEnabled = TRUE
    /\ excludedUrls = <<>>
    /\ currentUrl \in Urls
    /\ location = currentUrl
    /\ pc = "ready"
    /\ observing = TRUE
    /\ debounceTimeout = 0
    /\ timers = {}
    /\ mutationQueued = TRUE
    /\ lastOp = "pageMutation"
    /\ produced = <<>>
    /\ walked = FALSE
    /\ undone = {}
    /\ toggledOff = FALSE
    /\ quietScans = 0
    /\ burst = 0
    /\ IdleFetcher
    /\ IdleScheduler
    /\ IdleExtension

NextInPlace ==
    \/ ObserverCallback
    \/ DebounceFire
    \/ PageWritesText

SpecInPlace == InitInPlace /\ [][NextInPlace]_vars

\* ------------------------------------------------------------------------
\* The popup's exclusion list (popup.js): the user adds a pattern to the
\* list or removes one while a tab shows a page the content script converts
\* ------------------------------------------------------------------------
\* addUrl / removeUrl, then saveExcludedUrls:
\* await chrome.storage.local.set({ excludedUrls })
PopupSaveExcludedUrls ==
    /\ popupPc = "open"
    /\ \E list \in UserLists :
          /\ (list = <<>>) # (storedExcludedUrls = <<>>)
          /\ storedExcludedUrls' = list
    /\ popupPc' = "notify"
    /\ UNCHANGED <<storedEnabled, tabUrl, icon, activeTab, schedulerVars>>
    /\ UNCHANGED <<controllerVars, fetcherVars>>

\* saveExcludedUrls: chrome.tabs.query({ active: true, currentWindow: true })
\* gives the page's tab, and the listener of its content script handles
\* updateExcludedUrls
PopupUpdateDelivered ==
    /\ popupPc = "notify"
    /\ activeTab
    /\ UpdateExcludedUrlsHandler(storedExcludedUrls)
    /\ popupPc' = "open"
    /\ UNCHANGED <<storedEnabled, storedExcludedUrls, tabUrl, icon, activeTab, schedulerVars>>
    /\ UNCHANGED fetcherVars

\* the same while another tab is the active one: the message goes to that
\* tab alone, and the page's content script hears nothing
PopupUpdateElsewhere ==
    /\ popupPc = "notify"
    /\ ~ activeTab
    /\ popupPc' = "open"
    /\ UNCHANGED <<storedEnabled, storedExcludedUrls, tabUrl, icon, activeTab, schedulerVars>>
    /\ UNCHANGED <<controllerVars, fetcherVars>>

\* the user goes from the page's tab to another tab or comes back to it
UserSwitchesTab ==
    /\ popupPc = "open"
    /\ activeTab' = ~ activeTab
    /\ UNCHANGED <<storedEnabled, storedExcludedUrls, popupPc, tabUrl, icon, schedulerVars>>
    /\ UNCHANGED <<controllerVars, fetcherVars>>

\* init() has run with a usable rate, conversion enabled and an empty
\* exclusion list, the page has added one element holding a text node, and
\* the popup is open
InitExclusion ==
    /\ \E t \in PageTexts : page = <<Block("P", t)>>
    /\ kauPrice \in { PriceOf(FallbackPrice), PriceOf(2000) }
    /\ isEnabled = TRUE
    /\ excludedUrls = <<>>
    /\ currentUrl \in Urls
    /\ location = currentUrl
    /\ pc = "ready"
    /\ observing = TRUE
    /\ debounceTimeout = 0
    /\ timers = {}
    /\ mutationQueued = TRUE
    /\ lastOp = "pageMutation"
    /\ produced = <<>>
    /\ walked = FALSE
    /\ undone = {}
    /\ toggledOff = FALSE
    /\ quietScans = 0
    /\ burst = 0
    /\ IdleFetcher
    /\ IdleScheduler
    /\ storedEnabled = TRUE
    /\ storedExcludedUrls = <<>>
    /\ popupPc = "open"
    /\ tabUrl = currentUrl
    /\ icon = "normal"
    /\ activeTab \in BOOLEAN

NextExclusion ==
    \/ ObserverCallback
    \/ DebounceFire
    \/ PopupSaveExcludedUrls
    \/ PopupUpdateDelivered
    \/ PopupUpdateElsewhere
    \/ UserSwitchesTab

SpecExclusion == InitExclusion /\ [][NextExclusion]_vars

\* ------------------------------------------------------------------------
\* The scheduler of the rate updates (background.js): start(),
\* scheduleNextUpdate and the timers it sets
\* ------------------------------------------------------------------------
refreshInterval == 1800000     \* 30 * 60 * 1000 ms
retryDelay == 300000           \* 5 * 60 * 1000 ms
MaxUpdates == 2                \* updateGoldPrice calls under way at once
MaxHandles == 4                \* timer handles in use at once

Handles == 1 .. MaxHandles

\* how an updateGoldPrice call ends: the rate of a source was stored; every
\* source failed and the fallback was stored; the write of the fallback
\* failed and kauPriceError was stored (the call resolves to undefined);
\* the write of kauPriceError failed too (the call rejects)
Outcomes == {"rate", "fallback", "error", "rejected"}

\* a timer: its handle, what its callback does, whether it was set after a
\* scheduled update that failed, and the time from that update to its firing
Timeout(h, callback, failed, waited) ==
    [handle |-> h, callback |-> callback, failed |-> failed, waited |-> waited]

FreeHandles(pending, last) ==
    Handles \ ({ pending[i].handle : i \in DOMAIN pending } \cup {last})

NewHandle(pending, last) ==
    CHOOSE h \in FreeHandles(pending, last) : \A g \in FreeHandles(pending, last) : h <= g

\* clearTimeout on the timers of the scheduler
ClearPending(pending, h) == SelectSeq(pending, LAMBDA t : t.handle # h)

\* a scheduleNextUpdate that does not clear the timer it has set before
scheduleNextUpdateWithoutClear(pending, last, failed, waited) ==
    [updateTimeout |-> NewHandle(pending, last),
     pending |-> Append(pending, Timeout(NewHandle(pending, last), "update", failed,
                                         waited + refreshInterval))]

\* scheduleNextUpdate: clearTimeout(this.updateTimeout) if it is set, then
\* this.updateTimeout = setTimeout(..., this.refreshInterval)
scheduleNextUpdate(pending, last, failed, waited) ==
    [updateTimeout |-> NewHandle(pending, last),
     pending |-> Append(ClearPending(pending, last),
                        Timeout(NewHandle(pending, last), "update", failed,
                                waited + refreshInterval))]

UpdatesUnderWay == updatesInFlight.start + updatesInFlight.scheduled

\* start(): updateGoldPrice is called; onInstalled and both onStartup
\* listeners call it
Start ==
    /\ UpdatesUnderWay < MaxUpdates
    /\ started' = TRUE
    /\ updatesInFlight' = [updatesInFlight EXCEPT !.start = @ + 1]
    /\ UNCHANGED <<updateTimeout, pendingTimeouts, lastAttempt>>
    /\ UNCHANGED <<controllerVars, fetcherVars, extensionVars>>

\* the updateGoldPrice of a start() settles: .then and .catch both call
\* scheduleNextUpdate
StartUpdateSettles ==
    /\ updatesInFlight.start > 0
    /\ FreeHandles(pendingTimeouts, updateTimeout) # {}
    /\ \E outcome \in Outcomes,
          next \in {scheduleNextUpdate(pendingTimeouts, updateTimeout, FALSE, 0)} :
          /\ updateTimeout' = next.updateTimeout
          /\ pendingTimeouts' = next.pending
    /\ updatesInFlight' = [updatesInFlight EXCEPT !.start = @ - 1]
    /\ UNCHANGED <<started, lastAttempt>>
    /\ UNCHANGED <<controllerVars, fetcherVars, extensionVars>>

\* the timer set by scheduleNextUpdate fires and its callback calls
\* updateGoldPrice; this.updateTimeout keeps the handle.  A timer set after
\* a retry timer fires after it: it was set later and waits longer.
RefreshTimerFires ==
    /\ UpdatesUnderWay < MaxUpdates
    /\ \E i \in DOMAIN pendingTimeouts :
          /\ pendingTimeouts[i].callback = "update"
          /\ \A j \in 1 .. (i - 1) : pendingTimeouts[j].callback # "reschedule"
          /\ pendingTimeouts' = ClearPending(pendingTimeouts, pendingTimeouts[i].handle)
          /\ lastAttempt' = [failed |-> pendingTimeouts[i].failed,
                             waited |-> pendingTimeouts[i].waited]
    /\ updatesInFlight' = [updatesInFlight EXCEPT !.scheduled = @ + 1]
    /\ UNCHANGED <<started, updateTimeout>>
    /\ UNCHANGED <<controllerVars, fetcherVars, extensionVars>>

\* the updateGoldPrice of the timer callback settles: scheduleNextUpdate
\* if it resolved, setTimeout(() => this.scheduleNextUpdate(), retryDelay)
\* if it rejected
ScheduledUpdateSettles ==
    /\ updatesInFlight.scheduled > 0
    /\ FreeHandles(pendingTimeouts, updateTimeout) # {}
    /\ \E outcome \in Outcomes :
          IF outcome = "rejected"
          THEN /\ pendingTimeouts' =
                      Append(pendingTimeouts,
                             Timeout(NewHandle(pendingTimeouts, updateTimeout), "reschedule",
                                     TRUE, retryDelay))
               /\ UNCHANGED updateTimeout
          ELSE \E next \in {scheduleNextUpdate(pendingTimeouts, updateTimeout,
                                               outcome # "rate", 0)} :
                  /\ updateTimeout' = next.updateTimeout
                  /\ pendingTimeouts' = next.pending
    /\ updatesInFlight' = [updatesInFlight EXCEPT !.scheduled = @ - 1]
    /\ UNCHANGED <<started, lastAttempt>>
    /\ UNCHANGED <<controllerVars, fetcherVars, extensionVars>>

\* the retry timer fires: scheduleNextUpdate.  Retry timers fire in the
\* order they were set.
RetryTimerFires ==
    /\ \E i \in DOMAIN pendingTimeouts :
          /\ pendingTimeouts[i].callback = "reschedule"
          /\ \A j \in 1 .. (i - 1) : pendingTimeouts[j].callback # "reschedule"
          /\ \E next \in {scheduleNextUpdate(
                              ClearPending(pendingTimeouts, pendingTimeouts[i].handle),
                              updateTimeout, pendingTimeouts[i].failed,
                              pendingTimeouts[i].waited)} :
                /\ updateTimeout' = next.updateTimeout
                /\ pendingTimeouts' = next.pending
    /\ UNCHANGED <<started, updatesInFlight, lastAttempt>>
    /\ UNCHANGED <<controllerVars, fetcherVars, extensionVars>>

NextScheduler ==
    \/ Start
    \/ StartUpdateSettles
    \/ RefreshTimerFires
    \/ ScheduledUpdateSettles
    \/ RetryTimerFires

SpecScheduler == InitBackground /\ [][NextScheduler]_vars

\* ------------------------------------------------------------------------
\* Properties
\* ------------------------------------------------------------------------
\* every node of the page, with the block it is in
AllNodes(blocks) ==
    UNION { { [block |-> i, node |-> blocks[i].nodes[j]] : j \in DOMAIN blocks[i].nodes } :
            i \in DOMAIN blocks }

\* the text nodes that are children of a block: where they are, what they hold
TextRuns(blocks) ==
    { [block |-> e.block, lo |-> e.node.lo, text |-> e.node.value] :
        e \in { f \in AllNodes(blocks) : f.node.kind = "text" } }

\* the text a block reads as once every wrapper is reverted
RevertedText(block) ==
    Flatten([j \in DOMAIN block.nodes |-> RevertNode(block.nodes[j]).value])

\* a block of the page holds a price and is open to the walk
PricedBlock(blocks) ==
    \E i \in DOMAIN blocks : blocks[i].tag = "P" /\ MatchTable[blocks[i].orig] # <<>>

\* C1: the replacements accepted for one text node are not empty, lie within
\* the text of the node, and no two of them overlap
C1_NonOverlap ==
    \A i \in DOMAIN produced :
        /\ \A k \in DOMAIN produced[i].reps :
              /\ 0 <= produced[i].reps[k].start
              /\ produced[i].reps[k].start < produced[i].reps[k].end
              /\ produced[i].reps[k].end <= Len(produced[i].text)
        /\ \A k, l \in DOMAIN produced[i].reps :
              k # l => \/ produced[i].reps[k].end <= produced[i].reps[l].start
                       \/ produced[i].reps[l].end <= produced[i].reps[k].start

\* a scan accepted two replacements and rejected an overlapping candidate
C1_Witness ==
    \E i \in DOMAIN produced :
        /\ Len(produced[i].reps) >= 2
        /\ Len(MatchTable[produced[i].text]) > Len(produced[i].reps)

\* C2: a handler that leaves the controller without a rate produces no
\* replacement, keeps every text node with its text, and adds no wrapper
C2_NoRatePassThrough ==
    [][kauPrice'.null =>
         /\ ~ Replaced(produced')
         /\ TextRuns(page) \subseteq TextRuns(page')
         /\ Wrappers(page') \subseteq Wrappers(page)]_vars

\* the debounced scan ran without a rate on an enabled, not excluded page
\* that holds a price
C2_Witness ==
    /\ kauPrice.null
    /\ lastOp = "debounce"
    /\ isEnabled
    /\ ~ UrlExcluded(currentUrl, excludedUrls)
    /\ PricedBlock(page)

\* the hostname is a hard-coded excluded host or a subdomain of one
SystemExcludedHost(hostname) ==
    \E i \in DOMAIN hardcodedExcludedUrls :
        \/ hostname = hardcodedExcludedUrls[i]
        \/ /\ Len(hostname) > Len(hardcodedExcludedUrls[i])
           /\ SubSeq(hostname, Len(hostname) - Len(hardcodedExcludedUrls[i]),
                     Len(hostname)) = <<".">> \o hardcodedExcludedUrls[i]

C4_DisabledStaysPlain ==
    toggledOff =>
        /\ Wrappers(page) = {}
        /\ ~ Replaced(produced)
        /\ lastOp = "toggleOff" => \A e \in AllNodes(page) : e.node.marks = {}

\* after a toggle-off that reverted wrappers, the debounced scan ran with a
\* rate on a page that is not excluded
C4_Witness ==
    /\ toggledOff
    /\ undone # {}
    /\ lastOp = "debounce"
    /\ ~ kauPrice.null
    /\ ~ UrlExcluded(currentUrl, excludedUrls)

\* C5: the second walk in a row of a page that nothing but the walks changed
\* (same rate, enabled, not excluded) produces no replacement
C5_SecondRunIsQuiet ==
    quietScans = 2 /\ walked => ~ Replaced(produced)

\* C6: reverting every wrapper of a block to its tooltip gives back the text
\* the block held before it was converted
C6_RevertRestores ==
    \A i \in DOMAIN page : RevertedText(page[i]) = page[i].orig

\* C7: a walk that follows a revert with the rate unchanged puts every
\* reverted wrapper back: same block and offset, same original text, same
\* display text
C7_RoundTrip ==
    walked => \A w \in undone : w.rate = kauPrice => w \in Wrappers(page)

\* a walk ran after wrappers made with the present rate were reverted
C7_Witness ==
    /\ walked
    /\ \E w \in undone : w.rate = kauPrice

\* C8: at most one debounce timer is pending, it is the one the last observer
\* callback started, and a burst of callbacks has exactly one pending
C8_OneTimer ==
    /\ Cardinality(timers) <= 1
    /\ timers \subseteq {debounceTimeout}
    /\ burst >= 1 => timers = {debounceTimeout}
    /\ burst = 0 => timers = {}

\* a second callback of a burst has replaced the timer of the first
C8_Witness ==
    /\ burst = MaxBurst
    /\ lastOp = "observer"
    /\ Cardinality(timers) = 1

\* C9: every node created by the handler that ran last, with its children,
\* is in processedElements
C9_CreatedAreMarked ==
    \A e \in AllNodes(page) : e.node.born => e.node.marks = PartsOf(e.node)

\* the text "$300 million" and the amount it stands for
ThreeHundredMillion == <<"$", "3", "0", "0">> \o Million
ThreeHundredMillionUsd == Dec(<<3, 0, 0, 0, 0, 0, 0, 0, 0>>, 0)

OneDollar == <<"$", "1", ".", "0", "0">>
FiftyThousandDollars == <<"$", "5", "0", "0", "0", "0">>

\* the display texts of the scan of a text at a rate of 2000, when the last
\* handler made that scan
DisplayedAtTwoThousand(text) ==
    { [i \in DOMAIN s.reps |-> s.reps[i].kauText] :
        s \in { q \in Range(produced) : q.text = text /\ kauPrice = PriceOf(2000) } }

\* C11 (as the code has it): at a rate of 2000 the amount 1.00 (0.0005 units)
\* is displayed in the milli band, as "0.50 mKAU", and the amount 50000
\* (25 units) is displayed as "25.00 KAU".
C11_ExamplesAsFormatted ==
    /\ DisplayedAtTwoThousand(OneDollar) \subseteq { << <<"0", ".", "5", "0">> \o MilliLabel >> }
    /\ DisplayedAtTwoThousand(FiftyThousandDollars)
         \subseteq { << <<"2", "5", ".", "0", "0">> \o UnitLabel >> }

\* the amount 1.00 has been scanned at the rate of 2000
C11_Witness ==
    /\ DisplayedAtTwoThousand(OneDollar) # {}
    /\ walked

\* C11 (as stated): at a rate of 2000 the amount 1.00 (0.0005 units) is
\* displayed in the sub-unit band with four decimal places, and the amount
\* 50000 as "25.00" with the unit label.
C11_SubUnitFourDecimals ==
    /\ DisplayedAtTwoThousand(OneDollar)
         \subseteq { << <<"0", ".", "0", "0", "0", "5">> \o UnitLabel >> }
    /\ DisplayedAtTwoThousand(FiftyThousandDollars)
         \subseteq { << <<"2", "5", ".", "0", "0">> \o UnitLabel >> }

\* ------------------------------------------------------------------------
\* C12
\* ------------------------------------------------------------------------
TwelveThousandDollars == <<"$", "1", "2", "3", "4", "5">>

\* the replacement stops on a digit and the text goes on with a digit
StopsInsideDigits(text, r) ==
    /\ r.originalPrice[Len(r.originalPrice)] \in Digit
    /\ r.end < Len(text)
    /\ text[r.end + 1] \in Digit

\* C12: no replacement of an amount written with the dollar sign stops inside
\* a run of digits; the text "$12345" is replaced as a whole or not at all.
C12_WholeDigitRun ==
    \A s \in Range(produced) :
      \A i \in DOMAIN s.reps :
        /\ Head(s.reps[i].originalPrice) = "$" => ~ StopsInsideDigits(s.text, s.reps[i])
        /\ s.text = TwelveThousandDollars => s.reps[i].originalPrice = TwelveThousandDollars

\* "$12345" has been scanned and replaced
C12_Witness ==
    \E s \in Range(produced) : s.text = TwelveThousandDollars /\ s.reps # <<>>

\* ------------------------------------------------------------------------
\* C13
\* ------------------------------------------------------------------------
DollarWord == <<"d", "o", "l", "l", "a", "r">>

\* the replacement is an amount followed by "dollar" or "dollars"
SuffixForm(r) ==
    \/ EndsWith(ToLowerCase(r.originalPrice), DollarWord)
    \/ EndsWith(ToLowerCase(r.originalPrice), DollarWord \o <<"s">>)

\* the amount the replacement is cut from touches a digit: one stands right
\* before its number, or right after its "dollar" or "dollars"
TouchesDigit(text, r) ==
    LET rest == SubSeq(text, r.end + 1, Len(text))
    IN  \/ r.start > 0 /\ text[r.start] \in Digit
        \/ rest # <<>> /\ Head(rest) \in Digit
        \/ /\ Len(rest) >= 2
           /\ EndsWith(ToLowerCase(r.originalPrice), DollarWord)
           /\ ToLowerChar(rest[1]) = "s"
           /\ rest[2] \in Digit

\* C13: an amount in suffix form that touches another digit is not replaced,
\* not even over a shortened span such as "123 dollar" of "123 dollars5".
C13_NoMatchNextToDigit ==
    \A s \in Range(produced) :
      \A i \in DOMAIN s.reps : SuffixForm(s.reps[i]) => ~ TouchesDigit(s.text, s.reps[i])

\* ------------------------------------------------------------------------
\* C14
\* ------------------------------------------------------------------------
\* the rate is null, or carries no price or a price of zero
Unusable(rate) == rate.null \/ rate.price = 0

\* C14: with an unusable rate a scan emits no replacement, and no converted
\* element shows a number that was computed without a usable rate.
C14_UnusableRateConvertsNothing ==
    /\ Unusable(kauPrice) => ~ Replaced(produced)
    /\ \A w \in Wrappers(page) : ~ Unusable(w.rate)

\* ------------------------------------------------------------------------
\* C15
\* ------------------------------------------------------------------------
\* C15: the exclusion decision a scan acts on is the one for the URL the page
\* is at when the scan runs, also after a navigation without a reload: a
\* page that is excluded at its present URL is not walked.
C15_ExclusionFollowsLocation ==
    walked => ~ UrlExcluded(location, excludedUrls)

\* ------------------------------------------------------------------------
\* C16
\* ------------------------------------------------------------------------
\* C16: when the first rate request has brought no rate, a later debounced
\* scan asks again: after a debounced scan the controller holds a rate or has
\* a rate request under way.
C16_RetryAfterFailedRequest ==
    (lastOp = "debounce" /\ kauPrice.null) => pc = "getKAUPrice"

\* ------------------------------------------------------------------------
\* C17
\* ------------------------------------------------------------------------
\* C17: a response to refreshPrice is success: true with a rate, or
\* success: false with an error; success: true is never sent without a rate.
C17_SuccessCarriesRate ==
    reply.sent => IF reply.success THEN reply.data.defined ELSE reply.error

\* ------------------------------------------------------------------------
\* C18
\* ------------------------------------------------------------------------
FiveThousandTrillion ==
    <<"$", "5", "0", "0", "0", " ", "t", "r", "i", "l", "l", "i", "o", "n">>
ThousandthOfAMillion ==
    <<"$", "0", ".", "0", "0", "1", " ", "m", "i", "l", "l", "i", "o", "n">>

\* 0 < x <= 10^15
PositiveUpToQuadrillion(x) ==
    /\ ~ AllZero(x.ds)
    /\ \/ Len(IntPart(x)) <= 15
       \/ IntPart(x) = <<1>> \o Zeros(15) /\ AllZero(FracPart(x))

\* the candidates the scans of the last handler passed on to the sort
Admitted == UNION { { [text |-> s.text, c |-> c] : c \in Range(MatchTable[s.text]) } :
                    s \in Range(produced) }

\* C18: every candidate passed on to overlap resolution has an amount that is
\* positive and at most 10^15; a match whose number is below 0.01 or whose
\* amount exceeds 10^15 after the multiplier is dropped before the sort.
C18_AdmittedAmountsInRange ==
    \A a \in Admitted :
      /\ PositiveUpToQuadrillion(a.c.usdAmount)
      /\ a.text = FiveThousandTrillion => a.c.originalPrice # FiveThousandTrillion
      /\ a.text # ThousandthOfAMillion

\* "$5000 trillion" has been scanned: the match of the whole text is dropped,
\* the match of "$5000" is admitted
C18_Witness ==
    \E a \in Admitted : a.text = FiveThousandTrillion /\ walked

\* ------------------------------------------------------------------------
\* C19
\* ------------------------------------------------------------------------
\* the number written in a match: its digits and its point
WrittenNumber(str) == ParseFloat(SelectSeq(str, LAMBDA c : c \in Digit \cup {"."}))

\* the scale word or letter written in a match, in lower case
WrittenScale(str) ==
    LET letters == ToLowerCase(SelectSeq(str, LAMBDA c : c \in WordChar \ (Digit \cup {"_"})))
        Behind(w) == IF StartsWith(w, <<"u", "s", "d">>) THEN SubSeq(w, 4, Len(w)) ELSE w
        Before(w) == IF EndsWith(w, <<"d", "o", "l", "l", "a", "r", "s">>)
                     THEN SubSeq(w, 1, Len(w) - 7)
                     ELSE IF EndsWith(w, <<"d", "o", "l", "l", "a", "r">>)
                     THEN SubSeq(w, 1, Len(w) - 6)
                     ELSE w
    IN  Before(Behind(letters))

\* the power of ten each scale word and letter stands for
ScaleExponent(w) ==
    CASE w = <<>> -> 0
      [] w = <<"h", "u", "n", "d", "r", "e", "d">> -> 2
      [] w \in { <<"t", "h", "o", "u", "s", "a", "n", "d">>, <<"k">> } -> 3
      [] w \in { <<"m", "i", "l", "l", "i", "o", "n">>, <<"m">> } -> 6
      [] w \in { <<"b", "i", "l", "l", "i", "o", "n">>, <<"b">> } -> 9
      [] w \in { <<"t", "r", "i", "l", "l", "i", "o", "n">>, <<"t">> } -> 12
      [] OTHER -> -1

\* C19: the amount of a candidate is the number written in it times the
\* multiplier of its scale word or letter, in whatever case it is written:
\* hundred 10^2, thousand and k 10^3, million and m 10^6, billion and b 10^9,
\* trillion and t 10^12, and 1 without a scale.
C19_AmountIsNumberTimesScale ==
    \A a \in Admitted :
      /\ ScaleExponent(WrittenScale(a.c.originalPrice)) >= 0
      /\ a.c.usdAmount =
           TimesTenTo(WrittenNumber(a.c.originalPrice),
                      ScaleExponent(WrittenScale(a.c.originalPrice)))

\* an amount with a scale letter in upper case has been scanned and admitted
C19_Witness ==
    \E a \in Admitted : a.c.originalPrice = <<"$", "8", "T">> /\ Replaced(produced)

\* ------------------------------------------------------------------------
\* C20
\* ------------------------------------------------------------------------
\* the text node at a node of a block is a member of processedElements
Processed(e) ==
    IF e.node.kind = "text" THEN "self" \in e.node.marks ELSE "text" \in e.node.marks

\* where the text nodes are that are not in processedElements, and their texts
Unprocessed(blocks) ==
    { [block |-> e.block, lo |-> e.node.lo, kind |-> e.node.kind, text |-> e.node.value] :
        e \in { f \in AllNodes(blocks) : ~ Processed(f) /\ ~ f.node.nested } }

\* the handlers that call removeConversions
Clearing == {"toggleOff", "updateExcludedUrls"}

\* C20: a text node in processedElements is not scanned again, and stays in
\* the set, until removeConversions replaces the set: a handler that does not
\* call removeConversions scans only text nodes that were not in the set, at
\* most once each, and leaves every member in it.
C20_ProcessedNotRescanned ==
    [][lastOp' \notin Clearing =>
         /\ Len(produced') <= Cardinality(Unprocessed(page))
         /\ \A i \in DOMAIN produced' :
              \E u \in Unprocessed(page) : u.text = produced'[i].text
         /\ \A e \in AllNodes(page) :
              e.node.marks # {} =>
                \E f \in AllNodes(page') :
                  /\ f.block = e.block
                  /\ f.node.lo = e.node.lo
                  /\ f.node.kind = e.node.kind
                  /\ f.node.value = e.node.value
                  /\ e.node.marks \subseteq f.node.marks]_vars

\* a walk has scanned nothing because every text node it met is in the set
C20_Witness ==
    /\ walked
    /\ produced = <<>>
    /\ \E e \in AllNodes(page) : Processed(e) /\ e.node.kind = "text"
    /\ \E e \in AllNodes(page) : Processed(e) /\ e.node.kind = "wrapper"

\* ------------------------------------------------------------------------
\* C28
\* ------------------------------------------------------------------------
\* the replacement starts right behind a digit or stops right before one
CutsIntoDigits(text, r) ==
    \/ r.start > 0 /\ text[r.start] \in Digit /\ Head(r.originalPrice) \in Digit
    \/ r.end < Len(text) /\ text[r.end + 1] \in Digit

\* C28: no accepted replacement, of whatever form, starts immediately after
\* a digit or ends immediately before a digit.
C28_NoSpanNextToDigit ==
    \A s \in Range(produced) :
      \A i \in DOMAIN s.reps : ~ CutsIntoDigits(s.text, s.reps[i])

\* ------------------------------------------------------------------------
\* C30
\* ------------------------------------------------------------------------
RECURSIVE DropSpaces(_)
DropSpaces(str) ==
    IF str # <<>> /\ Head(str) \in Space THEN DropSpaces(Tail(str)) ELSE str

\* the word a string begins with, in lower case
RECURSIVE LeadingWord(_)
LeadingWord(str) ==
    IF str # <<>> /\ Head(str) \in WordChar
    THEN <<ToLowerChar(Head(str))>> \o LeadingWord(Tail(str))
    ELSE <<>>

\* the replacement is a number behind "$" or "USD" and a scale word or
\* letter stands right behind it in the text
ScaleLeftBehind(text, r) ==
    /\ \/ Head(r.originalPrice) = "$"
       \/ StartsWith(ToLowerCase(r.originalPrice), <<"u", "s", "d">>)
    /\ r.originalPrice[Len(r.originalPrice)] \in Digit
    /\ ScaleExponent(LeadingWord(DropSpaces(SubSeq(text, r.end + 1, Len(text))))) > 0

\* C30: a number behind "$" or "USD" that is followed by a scale word or
\* letter is never converted on its own with the scale left behind as text.
C30_ScaleIsCovered ==
    \A s \in Range(produced) :
      \A i \in DOMAIN s.reps : ~ ScaleLeftBehind(s.text, s.reps[i])

\* ------------------------------------------------------------------------
\* C29
\* ------------------------------------------------------------------------
\* the display text is a number with the given count of decimals, followed
\* by the label
ShownWith(display, decimals, label) ==
    LET number == SubSeq(display, 1, Len(display) - Len(label))
    IN  /\ EndsWith(display, label)
        /\ number # <<>>
        /\ number[Len(number)] \in Digit
        /\ IF decimals = 0 THEN ~ Includes(number, ".")
           ELSE Includes(number, ".") /\ Len(number) - IndexOf(number, ".") = decimals

\* the band the thresholds 0.0001, 0.01, 1 and 1000 put amount / price in,
\* and the shape the claim gives the display in that band
ShownInItsBand(display, amount, price) ==
    IF AllZero(ScaledFloor(amount, price, 4)) THEN ShownWith(display, 0, MicroLabel)
    ELSE IF AllZero(ScaledFloor(amount, price, 2)) THEN ShownWith(display, 2, MilliLabel)
    ELSE IF AllZero(ScaledFloor(amount, price, 0)) THEN ShownWith(display, 4, UnitLabel)
    ELSE IF Len(ScaledFloor(amount, price, 0)) <= 3 THEN ShownWith(display, 2, UnitLabel)
    ELSE ShownWith(display, 2, UnitLabel) /\ Includes(display, ",")

\* C29: the display of an amount is in the band its value falls in by the
\* thresholds 0.0001, 0.01, 1 and 1000, with that band's precision: no
\* decimals of millionths, 2 decimals of thousandths, 4 decimals below 1,
\* 2 decimals below 1000, and 2 decimals with grouping from 1000 on.
C29_BandAndPrecision ==
    \A s \in Range(produced) :
      \A i \in DOMAIN s.reps :
        ~ Unusable(kauPrice) =>
          ShownInItsBand(s.reps[i].kauText, WrittenNumber(s.reps[i].originalPrice),
                         kauPrice.price)

\* ------------------------------------------------------------------------
\* C25
\* ------------------------------------------------------------------------
\* the controller refuses the page for a rule of the user's list
RefusedByUserList(url, userList) ==
    /\ ~ IsHardcodedExcluded(url)
    /\ isUrlExcluded(url, userList)

\* C25: the icon shows a tab as user-excluded exactly when the controller,
\* with the same URL and the same list of user patterns, refuses to
\* convert the page for a user pattern: the two matchesUrlPattern agree.
C25_IconAgreesWithController ==
    (icon # "none" /\ storedEnabled) =>
       ((icon = "user-excluded") <=> RefusedByUserList(currentUrl, excludedUrls))

\* ------------------------------------------------------------------------
\* C21
\* ------------------------------------------------------------------------
\* every block open to the walk whose text holds an amount at the rate has
\* a converted element
ConvertedAgain(blocks, rate) ==
    \A i \in DOMAIN blocks :
        (blocks[i].tag = "P" /\ PriceReplacements(blocks[i].orig, rate) # <<>>) =>
            \E w \in Wrappers(blocks) : w.block = i

\* C21: after an exclusion-list-updated notification is handled, a page that
\* matches a rule of the hard-coded list or of the new user list holds no
\* converted element, and a page that matches none, with conversion enabled
\* and a rate, has its amounts converted again.
C21_UpdatedListTakesEffect ==
    lastOp = "updateExcludedUrls" =>
        /\ UrlExcluded(location, excludedUrls) => Wrappers(page) = {}
        /\ (~ UrlExcluded(location, excludedUrls) /\ isEnabled /\ ~ kauPrice.null) =>
              ConvertedAgain(page, kauPrice)

\* ------------------------------------------------------------------------
\* C23
\* ------------------------------------------------------------------------
\* C23: no converted element has a converted element inside it, and the
\* display text of a converted element is never matched: no price pattern
\* matches it, and a scan that reads it replaces nothing.
C23_NoDoubleConversion ==
    /\ \A e \in AllNodes(page) : ~ e.node.nested
    /\ \A w \in Wrappers(page) : MatchTable[w.text] = <<>>
    /\ \A i \in DOMAIN produced :
          produced[i].text \in DisplayTexts => produced[i].reps = <<>>

\* a walk has scanned the display text of a converted element made by an
\* earlier scan
C23_Witness ==
    /\ walked
    /\ \E e \in AllNodes(page) :
          /\ e.node.kind = "wrapper"
          /\ ~ e.node.born
          /\ "text" \in e.node.marks
          /\ \E i \in DOMAIN produced : produced[i].text = e.node.value

\* ------------------------------------------------------------------------
\* C26
\* ------------------------------------------------------------------------
\* C26: after a rate-updated notification that carries a usable rate is
\* handled, every converted element on the page shows the amount computed
\* with that rate.
C26_ShownAtNewRate ==
    (lastOp = "priceUpdated" /\ ~ Unusable(kauPrice)) =>
        \A w \in Wrappers(page) :
            \E i \in DOMAIN PriceReplacements(w.title, kauPrice) :
                PriceReplacements(w.title, kauPrice)[i].kauText = w.text

\* ------------------------------------------------------------------------
\* C22
\* ------------------------------------------------------------------------
\* the steps of the controller that no message and no script of the page
\* causes: the steps of init(), the observer callback and the debounced scan
OwnOps == {"getKAUPrice", "loadEnabledState", "init", "observer", "debounce"}
OwnStep == lastOp' \in OwnOps

\* no mutation record is queued and no debounce timer is pending: no scan
\* and no write to the document is to come
Quiescent == timers = {} /\ ~ mutationQueued

\* C22: once the page is no longer changed from outside (no message arrives,
\* no script of the page writes or navigates), the scans that the
\* controller's own writes set off come to an end: from some point on no
\* mutation record is queued and no debounce timer is pending.
C22_OwnWritesQuiesce ==
    <>[][OwnStep]_vars => <>[]Quiescent

\* the scan set off by the controller's own writes has run, has replaced
\* nothing, and has left nothing queued and no timer pending
C22_Witness ==
    /\ Quiescent
    /\ lastOp = "debounce"
    /\ walked
    /\ produced # <<>>
    /\ ~ Replaced(produced)
    /\ Wrappers(page) # {}

\* ------------------------------------------------------------------------
\* C24
\* ------------------------------------------------------------------------
\* init() has finished, the popup's handler has finished, and no scan is
\* still to come
AllDelivered ==
    /\ pc = "ready"
    /\ popupPc = "done"
    /\ timers = {}
    /\ ~ mutationQueued

\* C24: however the steps of init() and the steps of a toggle-off in the
\* popup interleave, once all of them are done conversion is disabled in the
\* controller and the page holds no converted element.
C24_ToggleOffWins ==
    AllDelivered => (~ isEnabled /\ Wrappers(page) = {})

\* ------------------------------------------------------------------------
\* C27
\* ------------------------------------------------------------------------
\* an amount that the scan finds in the text of an element open to the walk
\* has no converted element at its place
AmountLeft(blocks, rate) ==
    \E i \in DOMAIN blocks :
        /\ blocks[i].tag \notin {"SCRIPT", "STYLE"}
        /\ \E r \in Range(PriceReplacements(blocks[i].orig, rate)) :
              ~ \E w \in Wrappers(blocks) :
                    w.block = i /\ w.lo = r.start /\ w.title = r.originalPrice

\* C27: with conversion enabled, the site not excluded and a usable rate,
\* once no mutation record is queued and no timer is pending every amount
\* on the page is converted, also an amount that the page has written in
\* place into a text node that had been processed before.
C27_QuietPageIsConverted ==
    (Quiescent /\ pc = "ready" /\ isEnabled /\ ~ Unusable(kauPrice)
       /\ ~ UrlExcluded(currentUrl, excludedUrls)) => ~ AmountLeft(page, kauPrice)

\* ------------------------------------------------------------------------
\* C31
\* ------------------------------------------------------------------------
\* the answer of a source is a number from 1000 to 5000
InRange(answer) == answer.kind = "number" /\ answer.price >= 1000 /\ answer.price <= 5000

\* the sources, in the order tried, that gave such a number
Usable(tried) == { i \in DOMAIN tried : InRange(tried[i].answer) }

\* the same, and the write of the rate to storage went through
Written(tried) == { i \in Usable(tried) : tried[i].stored }

\* the rate is a positive price per gram
PositiveRate(data) ==
    /\ data.defined
    /\ data.price.num > 0
    /\ ~ IsZero(data.price.den)

\* the rate is the price per ounce of the first source of the set, divided
\* by 31.1034768, and the fallback of 130 when the set is empty
FromFirstOf(data, tried, sources) ==
    IF sources # {}
    THEN \E k \in sources :
            /\ \A j \in sources : k <= j
            /\ data.source = goldApis[k]
            /\ data.price = [num |-> tried[k].answer.price, den |-> gramsPerOunce]
    ELSE /\ data.source = <<"f", "a", "l", "l", "b", "a", "c", "k">>
         /\ data.price = [num |-> FallbackPrice, den |-> Dec(<<1>>, 0)]

ScriptOrStyle(blocks) == { i \in DOMAIN blocks : blocks[i].tag \in {"SCRIPT", "STYLE"} }

\* C32: whatever text a script or style element holds, no scan modifies its
\* text node: the element keeps the one text node the page gave it, with the
\* text the page wrote, and no wrapper is put into it.
C32_ScriptAndStyleUntouched ==
    \A i \in ScriptOrStyle(page) :
        /\ page[i].nodes = Block(page[i].tag, page[i].orig).nodes
        /\ \A w \in Wrappers(page) : w.block # i

\* a scan has walked a page whose style element holds "$300 million" while
\* a rate was known
C32_Witness ==
    /\ walked
    /\ lastOp = "debounce"
    /\ ~ kauPrice.null
    /\ \E i \in DOMAIN page :
          /\ page[i].tag = "STYLE"
          /\ page[i].orig = <<"$", "3", "0", "0">> \o Million

\* ------------------------------------------------------------------------
\* C33
\* ------------------------------------------------------------------------
\* C33: once saveExcludedUrls has finished after the user added or removed a
\* pattern, the content script of the open page holds the list that was
\* persisted, and the page shows no conversion if that list excludes its
\* site.
C33_EveryPageGetsTheList ==
    popupPc = "open" =>
        /\ excludedUrls = storedExcludedUrls
        /\ UrlExcluded(currentUrl, storedExcludedUrls) => Wrappers(page) = {}

\* ------------------------------------------------------------------------
\* C34
\* ------------------------------------------------------------------------
\* the pending timers whose callback runs a rate update
RefreshTimers == SelectSeq(pendingTimeouts, LAMBDA t : t.callback = "update")

\* C34: however often start() is called and however its updates interleave
\* with a scheduled update, at most one timer that runs a rate update is
\* pending, it is the one this.updateTimeout names, and once start() has
\* been called an update is under way or a timer is pending.
C34_OneTimerAndNeverIdle ==
    /\ Len(RefreshTimers) <= 1
    /\ \A i \in DOMAIN RefreshTimers : RefreshTimers[i].handle = updateTimeout
    /\ started => (UpdatesUnderWay > 0 \/ pendingTimeouts # <<>>)

\* a start() has settled while a scheduled update was under way and another
\* start() had begun its update: one timer is pending
C34_Witness ==
    /\ updatesInFlight.start > 0
    /\ updatesInFlight.scheduled > 0
    /\ Len(RefreshTimers) = 1

\* ------------------------------------------------------------------------
\* C35
\* ------------------------------------------------------------------------
\* C35: the timer that begins the next update after a scheduled update has
\* failed was to fire retryDelay after that update.
C35_RetryAfterFailure ==
    lastAttempt.failed => lastAttempt.waited = retryDelay

====
